---- MODULE Spec2Model ----
(***************************************************************************)
(* PNG-style scanline filtering and the filtered-compressor drivers of     *)
(* the repository (png_tools/png_filters.py, png_compressors/*.py).        *)
(*                                                                         *)
(* The program is a library of stateless operations.  A behaviour of the   *)
(* model is one call: Init fixes the operation that is called (op) and     *)
(* its arguments, the actions run the call, and pc records where the call  *)
(* stands ("call", intermediate stages, "done" or "raised").               *)
(***************************************************************************)
EXTENDS Integers, Sequences, FiniteSets, TLC

VARIABLES
    op,            \* the operation that is called
    pc,            \* position of the call
    width,         \* self.width of the encoder / decoder
    height,        \* self.height of the encoder / decoder
    curr,          \* current scanline argument
    prev,          \* previous scanline argument
    pargs,         \* <<left, upper, upper_left>> of paethPredictor
    channel,       \* channel argument of _filter_channel
    data_list,     \* data_block.data_list argument of _channelify
    chunks,        \* channels returned by _channelify
    ret_type,      \* returned filter type (or predictor value)
    ret_line,      \* returned filtered scanline
    filter_types,  \* filter types returned by _filter_channel
    filtered,      \* flat filtered data returned by _filter_channel(s)
    decoded,       \* data returned by _reverse_filter_channels
    encoder,       \* class of the encoder object ("" when none is used)
    prepend_filter_type,  \* self.prepend_filter_type
    order,         \* self.order of FilteredArithmetic
    coders,        \* the entropy coders constructed by the call, in order
    encoded,       \* the BitArray built by the call
    error,         \* name of the exception that ended the call ("" if none)
    image,         \* image argument of encode_image: its mode and its bands
    sequences,     \* LZ77 sequences of the parse of the block
    literals,      \* literal buffer of the parse of the block
    sequence_encoding,  \* returned by _encode_sequences_arithmetic
    literals_encoding,  \* returned by _encode_literals_arithmetic
    decoded_sequences,  \* sequences returned by _decode_lz77_arithmetic_sequences
    num_bits_consumed_sequences,  \* bits it reports as consumed
    decoded_literals,   \* literals returned by _decode_literals
    num_bits_consumed_literals,   \* bits it reports as consumed
    encoder_name,  \* compressor name given to compare_file
    separate,      \* separate flag given to compare_file
    heuristic,     \* heuristic name given to compare_file
    chosen_heuristic,   \* chosen_heuristic of compare_file
    self_heuristic      \* heuristic the encoder was constructed with

\* The variables of the encoder objects, of their arguments and of what
\* they return.
encvars == <<encoder, prepend_filter_type, order, coders, encoded, error,
             image>>

\* The variables of LzArithmeticEncoder and LzArithmeticDecoder.
lzvars == <<sequences, literals, sequence_encoding, literals_encoding,
            decoded_sequences, num_bits_consumed_sequences, decoded_literals,
            num_bits_consumed_literals>>

\* The variables of compare_file.
clivars == <<encoder_name, separate, heuristic, chosen_heuristic,
             self_heuristic>>

vars == <<op, pc, width, height, curr, prev, pargs, channel, data_list,
          chunks, ret_type, ret_line, filter_types, filtered, decoded,
          encvars, lzvars, clivars>>

(***************************************************************************)
(* Bounds of the model.                                                    *)
(***************************************************************************)
MaxLen == 2          \* longest scanline given to a predictor
MaxPixels == 4       \* largest width * height of a single channel
MaxBlockLen == 7     \* longest data block given to _channelify
MaxImagePixels == 3  \* largest number of pixels of an image
MaxSequences == 2    \* largest number of LZ77 sequences of a parse
MaxLiterals == 3     \* longest literal buffer given to _encode_literals_arithmetic

\* Sample values of a byte: both ends of the range, the middle, and small
\* values whose differences wrap around modulo 256.
Bytes == {0, 1, 2, 128, 255}
\* Sample values of the bytes of a multi-channel block.
BlockBytes == {0, 1, 2}
\* Sample arguments of paethPredictor: Bytes and the small values among
\* which two of the three distances tie.
PaethBytes == Bytes \cup {3, 4}

Lines(n, S) == [1..n -> S]

(***************************************************************************)
(* png_tools/png_filters.py                                                *)
(***************************************************************************)
RECURSIVE np_sum(_)
np_sum(a) == IF a = <<>> THEN 0 ELSE Head(a) + np_sum(Tail(a))

\* np.floor(n / 2) for an integer n: true division, then floor.
np_floor_half(n) == (n - (n % 2)) \div 2

abs(x) == IF x < 0 THEN -x ELSE x

none(scanline) == <<scanline, 0>>

\* sub without the first-pixel case: scanline[-1] is the last element.
sub_wrap(scanline) ==
    <<[i \in 1..Len(scanline) |->
          (scanline[i] - scanline[IF i = 1 THEN Len(scanline) ELSE i - 1]) % 256],
      1>>

sub(scanline) ==
    <<[i \in 1..Len(scanline) |->
          IF i = 1 THEN scanline[1]
          ELSE (scanline[i] - scanline[i - 1]) % 256], 1>>

up(curr_scanline, prev_scanline) ==
    <<[i \in 1..Len(curr_scanline) |->
          (curr_scanline[i] - prev_scanline[i]) % 256], 2>>

\* average rounding the half up instead of down.
average_ceil(curr_scanline, prev_scanline) ==
    <<[i \in 1..Len(curr_scanline) |->
          IF i = 1
          THEN (curr_scanline[1] - ((prev_scanline[1] + 1) \div 2)) % 256
          ELSE (curr_scanline[i]
                - ((prev_scanline[i] + curr_scanline[i - 1] + 1) \div 2)) % 256],
      3>>

average(curr_scanline, prev_scanline) ==
    <<[i \in 1..Len(curr_scanline) |->
          IF i = 1
          THEN (curr_scanline[1] - np_floor_half(prev_scanline[1])) % 256
          ELSE (curr_scanline[i]
                - np_floor_half(prev_scanline[i] + curr_scanline[i - 1])) % 256],
      3>>

\* paethPredictor with strict comparisons: ties go to the later candidate.
paethPredictor_strict(left, upper, upper_left) ==
    LET p == left + upper - upper_left
        p_left == abs(p - left)
        p_upper == abs(p - upper)
        p_upper_left == abs(p - upper_left)
    IN  IF p_left < p_upper /\ p_left < p_upper_left THEN left
        ELSE IF p_upper < p_upper_left THEN upper
        ELSE upper_left

paethPredictor(left, upper, upper_left) ==
    LET p == left + upper - upper_left
        p_left == abs(p - left)
        p_upper == abs(p - upper)
        p_upper_left == abs(p - upper_left)
    IN  IF p_left <= p_upper /\ p_left <= p_upper_left THEN left
        ELSE IF p_upper <= p_upper_left THEN upper
        ELSE upper_left

paeth(curr_scanline, prev_scanline) ==
    <<[i \in 1..Len(curr_scanline) |->
          IF i = 1
          THEN (curr_scanline[1]
                - paethPredictor(0, prev_scanline[1], 0)) % 256
          ELSE (curr_scanline[i]
                - paethPredictor(curr_scanline[i - 1], prev_scanline[i],
                                 prev_scanline[i - 1])) % 256],
      4>>

\* try_filter accepting a candidate whose sum is equal.
try_filter_le(s, res) ==
    LET res_sum == np_sum(res[1])
    IN  IF res_sum <= s[3] THEN <<res[2], res[1], res_sum>> ELSE s

\* try_filter that records the filter type but keeps the old filtered line.
try_filter_stale(s, res) ==
    LET res_sum == np_sum(res[1])
    IN  IF res_sum < s[3] THEN <<res[2], s[2], res_sum>> ELSE s

\* One "try the next filter" step of choose_filter: keep the candidate when
\* its sum is strictly smaller.  s is <<filter_type, filtered, smallest_sum>>.
try_filter(s, res) ==
    LET res_sum == np_sum(res[1])
    IN  IF res_sum < s[3] THEN <<res[2], res[1], res_sum>> ELSE s

choose_filter(c, p) ==
    LET s0 == <<0, c, np_sum(c)>>
        s1 == try_filter(s0, sub(c))
        s2 == try_filter(s1, up(c, p))
        s3 == try_filter(s2, average(c, p))
        s4 == try_filter(s3, paeth(c, p))
        s  == IF s0[3] = 0 THEN s0
              ELSE IF s1[3] = 0 THEN s1
              ELSE IF s2[3] = 0 THEN s2
              ELSE IF s3[3] = 0 THEN s3
              ELSE s4
    IN  <<s[1], s[2]>>

(***************************************************************************)
(* png_compressors/core_encoder.py                                         *)
(***************************************************************************)
\* A previous row of ones in the place of the all-zero row of the top edge.
np_ones(n) == [i \in 1..n |-> 1]

np_zeros(n) == [i \in 1..n |-> 0]

\* np.array(a).reshape(h, w): row i holds a[i*w .. (i+1)*w - 1] (0-based).
\* numpy raises ValueError unless len(a) = h * w.
reshape_ok(a, h, w) == Len(a) = h * w
reshape(a, h, w) == [i \in 1..h |-> SubSeq(a, (i - 1) * w + 1, i * w)]

RECURSIVE flatten(_)
flatten(rows) == IF rows = <<>> THEN <<>> ELSE Head(rows) \o flatten(Tail(rows))

\* The loop of _channelify stopping one step early (end < len).
RECURSIVE channelify_loop_lt(_, _, _, _, _)
channelify_loop_lt(dl, chunk_size, start, end, acc) ==
    IF end < Len(dl)
    THEN channelify_loop_lt(dl, chunk_size, start + chunk_size, end + chunk_size,
                            Append(acc, SubSeq(dl, start + 1, end)))
    ELSE acc

\* The while loop of _channelify; start and end are the 0-based slice bounds.
RECURSIVE channelify_loop(_, _, _, _, _)
channelify_loop(dl, chunk_size, start, end, acc) ==
    IF end <= Len(dl)
    THEN channelify_loop(dl, chunk_size, start + chunk_size, end + chunk_size,
                         Append(acc, SubSeq(dl, start + 1, end)))
    ELSE acc

\* CoreEncoder._channelify: [raised |-> TRUE] stands for the ValueError.
_channelify(dl) ==
    LET chunk_size == width * height
        found == channelify_loop(dl, chunk_size, 0, chunk_size, <<>>)
    IN  IF Len(found) < 3 \/ Len(found) > 4
        THEN [raised |-> TRUE, chunks |-> <<>>]
        ELSE [raised |-> FALSE, chunks |-> found]

\* The row loop with the top-edge test inverted (prev is row i - 1 for row 0,
\* which numpy reads as the last row, and zeros after it).
RECURSIVE filter_channel_loop_inverted(_, _, _, _)
filter_channel_loop_inverted(channel_block, i, types, flat) ==
    IF i >= height THEN <<types, flat>>
    ELSE LET curr_row == channel_block[i + 1]
             prev_row == IF i > 0 THEN np_zeros(width) ELSE channel_block[height]
             chosen == choose_filter(curr_row, prev_row)
         IN  filter_channel_loop_inverted(channel_block, i + 1,
                                          Append(types, chosen[1]),
                                          flat \o chosen[2])

\* The row loop taking the previous filtered row as prev.
RECURSIVE filter_channel_loop_filtered_prev(_, _, _, _)
filter_channel_loop_filtered_prev(channel_block, i, types, flat) ==
    IF i >= height THEN <<types, flat>>
    ELSE LET curr_row == channel_block[i + 1]
             prev_row == IF i = 0 THEN np_zeros(width)
                         ELSE SubSeq(flat, (i - 1) * width + 1, i * width)
             chosen == choose_filter(curr_row, prev_row)
         IN  filter_channel_loop_filtered_prev(channel_block, i + 1,
                                               Append(types, chosen[1]),
                                               flat \o chosen[2])

\* The loop over the rows of _filter_channel (i is the 0-based row index):
\* prev is the all-zero row for row 0 and the original row i - 1 after it.
RECURSIVE filter_channel_loop(_, _, _, _)
filter_channel_loop(channel_block, i, types, flat) ==
    IF i >= height THEN <<types, flat>>
    ELSE LET curr_row == channel_block[i + 1]
             prev_row == IF i = 0 THEN np_zeros(width) ELSE channel_block[i]
             chosen == choose_filter(curr_row, prev_row)
         IN  filter_channel_loop(channel_block, i + 1,
                                 Append(types, chosen[1]), flat \o chosen[2])

\* CoreEncoder._filter_channel: <<filter_types, filtered.flatten()>>.
_filter_channel(ch) ==
    filter_channel_loop(reshape(ch, height, width), 0, <<>>, <<>>)

\* The rows of one channel with the filter types in front of all the rows
\* instead of in front of each.
channel_rows_types_first(types, rows, r) == types \o flatten(rows)

\* filtered[start:end, 0] = filter_types; filtered[start:end, 1:] =
\* filtered_chunk.reshape(height, width): the rows of one channel, flattened.
RECURSIVE channel_rows(_, _, _)
channel_rows(types, rows, r) ==
    IF r > height THEN <<>>
    ELSE <<types[r]>> \o rows[r] \o channel_rows(types, rows, r + 1)

\* The loop over the chunks of _filter_channels (i is the 0-based index).
RECURSIVE filter_channels_loop(_, _, _)
filter_channels_loop(chs, i, flat) ==
    IF i >= Len(chs) THEN flat
    ELSE LET res == _filter_channel(chs[i + 1])
         IN  filter_channels_loop(chs, i + 1,
                 flat \o channel_rows(res[1], reshape(res[2], height, width), 1))

\* CoreEncoder._filter_channels: filtered.flatten().tolist().
_filter_channels(chs) == filter_channels_loop(chs, 0, <<>>)

\* CoreDecoder._reverse_filter_channels: not implemented, returns [].
_reverse_filter_channels(data) == <<>>

(***************************************************************************)
(* Bit arrays and entropy coders.  utils/bitarray_utils.py, core/,         *)
(* compressors/arithmetic_coding.py and external_compressors/ are imported *)
(* by the drivers; they are modelled by their contract.                    *)
(***************************************************************************)
\* Number of bits of the binary representation of x (1 for x = 0).
RECURSIVE get_bit_width(_)
get_bit_width(x) == IF x < 2 THEN 1 ELSE 1 + get_bit_width(x \div 2)

\* uint_to_bitarray(x, bit_width): x in binary, most significant bit first,
\* on exactly bit_width bits (x is below 2^31: the bits above are zeros).
uint_to_bitarray(x, bit_width) ==
    [i \in 1..bit_width |->
        IF bit_width - i > 30 THEN 0 ELSE (x \div 2 ^ (bit_width - i)) % 2]

\* uint_to_bitarray(x) with bit_width=None: x on the bits it needs.
uint_to_bitarray_min(x) == uint_to_bitarray(x, get_bit_width(x))

\* bitarray_to_uint: the value of a non-empty bit array read as binary (the
\* leading zeros are skipped, then the bits are folded from the first 1 on).
RECURSIVE bits_value(_, _, _)
bits_value(bits, i, acc) ==
    IF i > Len(bits) THEN acc ELSE bits_value(bits, i + 1, 2 * acc + bits[i])

bitarray_to_uint(bits) ==
    IF \A i \in DOMAIN bits : bits[i] = 0 THEN 0
    ELSE bits_value(bits, CHOOSE i \in DOMAIN bits :
                              bits[i] = 1 /\ \A j \in 1..(i - 1) : bits[j] = 0, 0)

\* bitarray[start:end] of Python (0-based, end excluded, cut at the ends).
slice(bits, start, end) ==
    LET e == IF end > Len(bits) THEN Len(bits) ELSE end
    IN  IF start >= e THEN <<>> ELSE SubSeq(bits, start + 1, e)

\* DataBlock.get_alphabet: the set of the distinct symbols of the block.
get_alphabet(data) == {data[i] : i \in DOMAIN data}

\* list(s) of a set of integers; the order Python gives is taken to be the
\* increasing one.
RECURSIVE list(_)
list(s) ==
    IF s = {} THEN <<>>
    ELSE LET least == CHOOSE a \in s : \A b \in s : a <= b
         IN  <<least>> \o list(s \ {least})

\* The payload of an entropy coder is kept abstract: what the drivers rely on
\* is that it is a bit array, that it is not empty, and that the decoder
\* gives the block back and reports how many bits it read.  The abstraction
\* writes each symbol as its position in the alphabet list, on the bits the
\* alphabet size needs, and ends with the position no symbol has.
RECURSIVE symbols_payload(_, _, _, _)
symbols_payload(alphabet, data, i, acc) ==
    LET n == Len(alphabet)
        w == get_bit_width(n)
    IN  IF i > Len(data) THEN acc \o uint_to_bitarray(n, w)
        ELSE symbols_payload(alphabet, data, i + 1,
                 acc \o uint_to_bitarray(
                     (CHOOSE j \in 1..n : alphabet[j] = data[i]) - 1, w))

\* ArithmeticDecoder.decode_block on the abstract payload: the block, the
\* number of bits read, and an error when the bits end before the payload
\* does or hold a position that is not in the alphabet.
RECURSIVE symbols_decode(_, _, _, _)
symbols_decode(alphabet, bits, pos, acc) ==
    LET n == Len(alphabet)
        w == get_bit_width(n)
        j == bitarray_to_uint(slice(bits, pos, pos + w))
    IN  IF pos + w > Len(bits) \/ j > n
        THEN [error |-> "ValueError", data |-> <<>>, bits |-> 0]
        ELSE IF j = n THEN [error |-> "", data |-> acc, bits |-> pos + w]
        ELSE symbols_decode(alphabet, bits, pos + w, Append(acc, alphabet[j + 1]))

\* ArithmeticEncoder(params, freq_model).encode_block(data_block), for an
\* AdaptiveOrderKFreqModel over alphabet with order k.
ArithmeticEncoder(alphabet, k) ==
    [class |-> "ArithmeticEncoder", alphabet |-> alphabet, k |-> k]

ArithmeticEncoder_encode_block(alphabet, k, data) ==
    symbols_payload(alphabet, data, 1, <<>>)

ArithmeticDecoder_decode_block(alphabet, k, bits) ==
    symbols_decode(alphabet, bits, 0, <<>>)

\* ZstdExternalEncoder().encode_block(data_block): the bytes of the block
\* behind their count (the frame of the external codec is kept abstract).
ZstdExternalEncoder ==
    [class |-> "ZstdExternalEncoder", alphabet |-> <<>>, k |-> 0]

RECURSIVE bytes_payload(_, _, _)
bytes_payload(data, i, acc) ==
    IF i > Len(data) THEN acc
    ELSE bytes_payload(data, i + 1, acc \o uint_to_bitarray(data[i], 8))

ZstdExternalEncoder_encode_block(data) ==
    bytes_payload(data, 1, uint_to_bitarray(Len(data), 8))

(***************************************************************************)
(* png_compressors/filtered_arithmetic.py, filtered_zstd.py.               *)
(***************************************************************************)
\* What an encode_block call leaves: the exception it raised (if any), the
\* result of its filtering pass, the coders it constructed and its BitArray.
Raised(name) ==
    [error |-> name, filter_types |-> <<>>, filtered |-> <<>>,
     coders |-> <<>>, encoded |-> <<>>]

\* FilteredArithmetic._arithmetic_encode: a new frequency model over the
\* alphabet of the block, of order self.order, and a new coder on it.
_arithmetic_encode(data) ==
    LET coded(alphabet) ==
            [coder |-> ArithmeticEncoder(alphabet, order),
             bits |-> ArithmeticEncoder_encode_block(alphabet, order, data)]
    IN  coded(list(get_alphabet(data)))

\* The two encodings of the prepend_filter_type branch concatenated with
\* the channel in front of the filter types.
FilteredArithmetic_encode_channel_swapped(dl) ==
    IF prepend_filter_type
    THEN LET concatenated(res, encoded_filter_types, encoded_channel) ==
                 [error |-> "", filter_types |-> res[1], filtered |-> res[2],
                  coders |-> <<encoded_channel.coder, encoded_filter_types.coder>>,
                  encoded |-> encoded_channel.bits \o encoded_filter_types.bits]
             entropy_coded(res) ==
                 concatenated(res, _arithmetic_encode(res[1]),
                              _arithmetic_encode(res[2]))
         IN  entropy_coded(_filter_channel(dl))
    ELSE LET coded(flat, enc) ==
                 [error |-> "", filter_types |-> <<>>, filtered |-> flat,
                  coders |-> <<enc.coder>>, encoded |-> enc.bits]
             entropy_coded(flat) == coded(flat, _arithmetic_encode(flat))
         IN  entropy_coded(_filter_channels(<<dl>>))

\* FilteredArithmetic.encode_block after its assertion: the filtering pass
\* and the entropy coding of one channel.
FilteredArithmetic_encode_channel(dl) ==
    IF prepend_filter_type
    THEN LET concatenated(res, encoded_filter_types, encoded_channel) ==
                 [error |-> "", filter_types |-> res[1], filtered |-> res[2],
                  coders |-> <<encoded_filter_types.coder, encoded_channel.coder>>,
                  encoded |-> encoded_filter_types.bits \o encoded_channel.bits]
             entropy_coded(res) ==
                 concatenated(res, _arithmetic_encode(res[1]),
                              _arithmetic_encode(res[2]))
         IN  entropy_coded(_filter_channel(dl))
    ELSE LET coded(flat, enc) ==
                 [error |-> "", filter_types |-> <<>>, filtered |-> flat,
                  coders |-> <<enc.coder>>, encoded |-> enc.bits]
             entropy_coded(flat) == coded(flat, _arithmetic_encode(flat))
         IN  entropy_coded(_filter_channels(<<dl>>))

\* The assertion only refusing the blocks that are too long: a block that is
\* too short gets to the filtering pass, where numpy's reshape raises.
FilteredArithmetic_encode_block_le(dl) ==
    IF Len(dl) > width * height THEN Raised("AssertionError")
    ELSE IF Len(dl) # width * height
    THEN [Raised("ValueError") EXCEPT !.filtered = dl]
    ELSE FilteredArithmetic_encode_channel(dl)

\* FilteredArithmetic.encode_block: the assertion on the size of the block,
\* then the channel.
FilteredArithmetic_encode_block(dl) ==
    IF Len(dl) # width * height THEN Raised("AssertionError")
    ELSE FilteredArithmetic_encode_channel(dl)

\* FilteredZstd.encode_block after its assertion.
FilteredZstd_encode_channel(dl) ==
    IF prepend_filter_type
    THEN LET entropy_coded(res) ==
                 [error |-> "", filter_types |-> res[1], filtered |-> res[2],
                  coders |-> <<ZstdExternalEncoder, ZstdExternalEncoder>>,
                  encoded |-> ZstdExternalEncoder_encode_block(res[1])
                              \o ZstdExternalEncoder_encode_block(res[2])]
         IN  entropy_coded(_filter_channel(dl))
    ELSE LET entropy_coded(flat) ==
                 [error |-> "", filter_types |-> <<>>, filtered |-> flat,
                  coders |-> <<ZstdExternalEncoder>>,
                  encoded |-> ZstdExternalEncoder_encode_block(flat)]
         IN  entropy_coded(_filter_channels(<<dl>>))

\* FilteredZstd.encode_block.
FilteredZstd_encode_block(dl) ==
    IF Len(dl) # width * height THEN Raised("AssertionError")
    ELSE FilteredZstd_encode_channel(dl)

(***************************************************************************)
(* png_compressors/lz_arithmetic.py.  compressors/lz77.py and              *)
(* compressors/elias_delta_uint_coder.py are imported; they are modelled   *)
(* from the design document.                                               *)
(***************************************************************************)
\* LZ77Encoder().min_match_length.
min_match_length == 3

\* LZ77Sequence(literal_count, match_length, match_offset).
LZ77Sequence(lc, ml, mo) ==
    [literal_count |-> lc, match_length |-> ml, match_offset |-> mo]

\* The Elias-delta code of an unsigned integer x, which is the code of
\* n = x + 1 >= 1: with k the number of bits of n and m the number of bits of
\* k, m - 1 zeros, k on m bits, then the low k - 1 bits of n.
elias_delta(x) ==
    LET n == x + 1
        k == get_bit_width(n)
        m == get_bit_width(k)
    IN  uint_to_bitarray(0, m - 1) \o uint_to_bitarray(k, m)
        \o Tail(uint_to_bitarray(n, k))

\* EliasDeltaUintEncoder().encode_block: the codes of the symbols, one after
\* the other; a negative symbol is refused.
RECURSIVE elias_delta_loop(_, _, _)
elias_delta_loop(data, lo, hi) ==
    IF lo > hi THEN <<>>
    ELSE IF lo = hi THEN elias_delta(data[lo])
    ELSE elias_delta_loop(data, lo, (lo + hi) \div 2)
         \o elias_delta_loop(data, (lo + hi) \div 2 + 1, hi)

EliasDeltaUintEncoder_encode_block(data) ==
    IF \E i \in DOMAIN data : data[i] < 0
    THEN [error |-> "AssertionError", bits |-> <<>>]
    ELSE [error |-> "", bits |-> elias_delta_loop(data, 1, Len(data))]

\* Number of zeros of bits from position pos (0-based) on.
RECURSIVE leading_zeros(_, _)
leading_zeros(bits, pos) ==
    IF pos >= Len(bits) \/ bits[pos + 1] = 1 THEN 0
    ELSE 1 + leading_zeros(bits, pos + 1)

\* EliasDeltaUintDecoder().decode_block: the symbols until the bits end, and
\* the number of bits read; an error when the bits end inside a code.
RECURSIVE elias_delta_decode(_, _, _)
elias_delta_decode(bits, pos, acc) ==
    IF pos >= Len(bits) THEN [error |-> "", data |-> acc, bits |-> pos]
    ELSE LET m == leading_zeros(bits, pos) + 1
             k == bitarray_to_uint(slice(bits, pos + m - 1, pos + 2 * m - 1))
             last == pos + 2 * m - 1 + k - 1
             n == bitarray_to_uint(<<1>> \o slice(bits, pos + 2 * m - 1, last))
         IN  IF pos + 2 * m - 1 > Len(bits) \/ last > Len(bits)
             THEN [error |-> "ValueError", data |-> <<>>, bits |-> 0]
             ELSE elias_delta_decode(bits, last, Append(acc, n - 1))

EliasDeltaUintDecoder_decode_block(bits) == elias_delta_decode(bits, 0, <<>>)

\* [f(l) for l in sequences] for the three fields of the flattened stream.
RECURSIVE literal_counts(_)
literal_counts(seqs) ==
    IF seqs = <<>> THEN <<>>
    ELSE <<Head(seqs).literal_count>> \o literal_counts(Tail(seqs))

RECURSIVE match_lengths_processed(_)
match_lengths_processed(seqs) ==
    IF seqs = <<>> THEN <<>>
    ELSE <<Head(seqs).match_length - min_match_length>>
         \o match_lengths_processed(Tail(seqs))

RECURSIVE match_offsets_processed(_)
match_offsets_processed(seqs) ==
    IF seqs = <<>> THEN <<>>
    ELSE <<Head(seqs).match_offset - 1>> \o match_offsets_processed(Tail(seqs))

\* combined of _encode_sequences_arithmetic: the flattened stream.
combined(seqs) ==
    <<min_match_length>> \o literal_counts(seqs)
    \o match_lengths_processed(seqs) \o match_offsets_processed(seqs)

\* The sequence segment with the coded stream in front of the alphabet, each
\* behind the length field of its place.
_encode_sequences_arithmetic_alphabet_last(seqs) ==
    LET combined_list == list(get_alphabet(combined(seqs)))
        combined_encoding ==
            ArithmeticEncoder_encode_block(combined_list, 0, combined(seqs))
        alphabet_encoding == EliasDeltaUintEncoder_encode_block(combined_list)
    IN  IF alphabet_encoding.error # ""
        THEN [error |-> alphabet_encoding.error, bits |-> <<>>]
        ELSE [error |-> "",
              bits |-> uint_to_bitarray(Len(combined_encoding), 64)
                       \o combined_encoding
                       \o uint_to_bitarray(Len(alphabet_encoding.bits), 32)
                       \o alphabet_encoding.bits]

\* LzArithmeticEncoder._encode_sequences_arithmetic.
_encode_sequences_arithmetic(seqs) ==
    LET combined_list == list(get_alphabet(combined(seqs)))
        combined_encoding ==
            ArithmeticEncoder_encode_block(combined_list, 0, combined(seqs))
        alphabet_encoding == EliasDeltaUintEncoder_encode_block(combined_list)
    IN  IF alphabet_encoding.error # ""
        THEN [error |-> alphabet_encoding.error, bits |-> <<>>]
        ELSE [error |-> "",
              bits |-> uint_to_bitarray(Len(alphabet_encoding.bits), 64)
                       \o alphabet_encoding.bits
                       \o uint_to_bitarray(Len(combined_encoding), 32)
                       \o combined_encoding]

\* [i for i in range(256)].
range_256 == [i \in 1..256 |-> i - 1]

\* The literal segment whose empty case is the payload of an empty block
\* behind its length, instead of the 32 zero bits alone.
_encode_literals_arithmetic_always_coded(lits) ==
    LET literals_enc == ArithmeticEncoder_encode_block(range_256, 1, lits)
    IN  uint_to_bitarray(Len(literals_enc), 32) \o literals_enc

\* LzArithmeticEncoder._encode_literals_arithmetic.
_encode_literals_arithmetic(lits) ==
    IF Len(lits) = 0 THEN uint_to_bitarray(0, 32)
    ELSE LET literals_enc == ArithmeticEncoder_encode_block(range_256, 1, lits)
         IN  uint_to_bitarray(Len(literals_enc), 32) \o literals_enc

\* The regrouping that reads the match offsets in front of the match lengths.
RECURSIVE lz77_sequences_offsets_first(_, _, _)
lz77_sequences_offsets_first(combined_decoded, num_sequences, i) ==
    IF i > num_sequences THEN <<>>
    ELSE <<LZ77Sequence(combined_decoded[1 + i],
                        combined_decoded[1 + 2 * num_sequences + i]
                            + combined_decoded[1],
                        combined_decoded[1 + num_sequences + i] + 1)>>
         \o lz77_sequences_offsets_first(combined_decoded, num_sequences, i + 1)

\* The regrouping of the decoded stream into LZ77 sequences.
RECURSIVE lz77_sequences(_, _, _)
lz77_sequences(combined_decoded, num_sequences, i) ==
    IF i > num_sequences THEN <<>>
    ELSE <<LZ77Sequence(combined_decoded[1 + i],
                        combined_decoded[1 + num_sequences + i]
                            + combined_decoded[1],
                        combined_decoded[1 + 2 * num_sequences + i] + 1)>>
         \o lz77_sequences(combined_decoded, num_sequences, i + 1)

\* What a decoding call leaves when it raises.
DecodeRaised(name) == [error |-> name, data |-> <<>>, bits |-> 0]

\* LzArithmeticDecoder._decode_lz77_arithmetic_sequences (bitarray_to_uint
\* refuses an empty bit array).
_decode_lz77_arithmetic_sequences(bitarray) ==
    LET encoded_alphabet_bitarray == slice(bitarray, 0, 64)
        encoded_alphabet_size == bitarray_to_uint(encoded_alphabet_bitarray)
        encoded_block_size_offset == 64 + encoded_alphabet_size
        encoded_alphabet_bits == slice(bitarray, 64, encoded_block_size_offset)
        sequence_offset == encoded_block_size_offset + 32
        sequence_block_size_bitarray ==
            slice(bitarray, encoded_block_size_offset, sequence_offset)
        sequence_block_size == bitarray_to_uint(sequence_block_size_bitarray)
        sequence_bitarray ==
            slice(bitarray, sequence_offset, sequence_offset + sequence_block_size)
        alphabet_block == EliasDeltaUintDecoder_decode_block(encoded_alphabet_bits)
        num_bits_consumed ==
            sequence_offset + sequence_block_size + encoded_block_size_offset
        combined_decoded ==
            ArithmeticDecoder_decode_block(alphabet_block.data, 0,
                                           sequence_bitarray)
        num_sequences == (Len(combined_decoded.data) - 1) \div 3
    IN  IF encoded_alphabet_bitarray = <<>> \/ sequence_block_size_bitarray = <<>>
        THEN DecodeRaised("ValueError")
        ELSE IF alphabet_block.error # "" THEN DecodeRaised(alphabet_block.error)
        ELSE IF alphabet_block.bits # encoded_alphabet_size
        THEN DecodeRaised("AssertionError")
        ELSE IF combined_decoded.error # ""
        THEN DecodeRaised(combined_decoded.error)
        ELSE IF sequence_block_size # combined_decoded.bits
                \/ (Len(combined_decoded.data) - 1) % 3 # 0
        THEN DecodeRaised("AssertionError")
        ELSE [error |-> "",
              data |-> lz77_sequences(combined_decoded.data, num_sequences, 1),
              bits |-> num_bits_consumed]

\* LzArithmeticDecoder._decode_literals.
_decode_literals(bitarray) ==
    LET literal_size == bitarray_to_uint(slice(bitarray, 0, 32))
        literals_decoded ==
            ArithmeticDecoder_decode_block(range_256, 1,
                                           slice(bitarray, 32, 32 + literal_size))
    IN  IF slice(bitarray, 0, 32) = <<>> THEN DecodeRaised("ValueError")
        ELSE IF literal_size = 0 THEN [error |-> "", data |-> <<>>, bits |-> 32]
        ELSE IF literals_decoded.error # ""
        THEN DecodeRaised(literals_decoded.error)
        ELSE IF literals_decoded.bits # literal_size
        THEN DecodeRaised("AssertionError")
        ELSE [error |-> "", data |-> literals_decoded.data,
              bits |-> 32 + literals_decoded.bits]

\* LzArithmeticEncoder.encode_block on the parse of the block.
LzArithmeticEncoder_encode_block(seqs, lits) ==
    LET seq_enc == _encode_sequences_arithmetic(seqs)
        lit_enc == _encode_literals_arithmetic(lits)
    IN  IF seq_enc.error # ""
        THEN [error |-> seq_enc.error, sequence_encoding |-> <<>>,
              literals_encoding |-> <<>>]
        ELSE [error |-> "", sequence_encoding |-> seq_enc.bits,
              literals_encoding |-> lit_enc]

\* LzArithmeticDecoder.decode_block: the values of its local variables when
\* it ends, and the exception that ends it.  The name lz77_sequences of line
\* 204 is bound nowhere in decode_block, so that the call which gets past
\* the two decoding steps ends with NameError.
decode_block(bitarray) ==
    LET seqs == _decode_lz77_arithmetic_sequences(bitarray)
        remaining_bitarray == slice(bitarray, seqs.bits, Len(bitarray))
        lits == _decode_literals(remaining_bitarray)
    IN  IF seqs.error # ""
        THEN [error |-> seqs.error, sequences |-> <<>>,
              num_bits_consumed_sequences |-> 0,
              literals |-> <<>>, num_bits_consumed_literals |-> 0,
              decoded_block |-> <<>>]
        ELSE IF lits.error # ""
        THEN [error |-> lits.error, sequences |-> seqs.data,
              num_bits_consumed_sequences |-> seqs.bits,
              literals |-> <<>>, num_bits_consumed_literals |-> 0,
              decoded_block |-> <<>>]
        ELSE [error |-> "NameError", sequences |-> seqs.data,
              num_bits_consumed_sequences |-> seqs.bits,
              literals |-> lits.data, num_bits_consumed_literals |-> lits.bits,
              decoded_block |-> <<>>]

\* LZ77Decoder.execute_lz77_sequences: the match is copied byte by byte
\* from match_offset bytes back in the output.
RECURSIVE copy_match(_, _, _)
copy_match(out, match_length, match_offset) ==
    IF match_length = 0 THEN out
    ELSE copy_match(Append(out, out[Len(out) - match_offset + 1]),
                    match_length - 1, match_offset)

RECURSIVE execute_lz77_sequences(_, _, _)
execute_lz77_sequences(lits, seqs, out) ==
    IF seqs = <<>> THEN out
    ELSE LET s == Head(seqs)
         IN  execute_lz77_sequences(
                 SubSeq(lits, s.literal_count + 1, Len(lits)), Tail(seqs),
                 copy_match(out \o SubSeq(lits, 1, s.literal_count),
                            s.match_length, s.match_offset))

(***************************************************************************)
(* png_compressors/filtered_zlib.py.  external_compressors/zlib_external   *)
(* is imported; its output is kept abstract like that of zstd.             *)
(***************************************************************************)
\* ZlibExternalEncoder().
ZlibExternalEncoder ==
    [class |-> "ZlibExternalEncoder", alphabet |-> <<>>, k |-> 0]

ZlibExternalEncoder_encode_block(data) ==
    bytes_payload(data, 1, uint_to_bitarray(Len(data), 8))

\* FilteredZlib._channelify: the code of CoreEncoder._channelify.
FilteredZlib_channelify(dl) == _channelify(dl)

\* The loop over the rows of one chunk of FilteredZlib._filter_channels (r is
\* the 0-based row index): prev is shaped_chunk[r - 1] for r = 0, which numpy
\* reads as the last row, and the all-zero row for every r > 0.
RECURSIVE FilteredZlib_filter_rows(_, _, _)
FilteredZlib_filter_rows(shaped_chunk, r, flat) ==
    IF r >= height THEN flat
    ELSE LET prepended(chosen) == flat \o <<chosen[1]>> \o chosen[2]
             prev_row == IF r > 0 THEN np_zeros(width) ELSE shaped_chunk[height]
         IN  FilteredZlib_filter_rows(shaped_chunk, r + 1,
                 prepended(choose_filter(shaped_chunk[r + 1], prev_row)))

\* The loop over the chunks (i is the 0-based index).
RECURSIVE FilteredZlib_filter_chunks(_, _, _)
FilteredZlib_filter_chunks(chs, i, flat) ==
    IF i >= Len(chs) THEN flat
    ELSE FilteredZlib_filter_chunks(chs, i + 1,
             FilteredZlib_filter_rows(reshape(chs[i + 1], height, width), 0,
                                      flat))

\* FilteredZlib._filter_channels: filtered.flatten().tolist().
FilteredZlib_filter_channels(chs) == FilteredZlib_filter_chunks(chs, 0, <<>>)

\* FilteredZlib.encode_block on a block of all the channels.
FilteredZlib_encode_block(dl) ==
    LET encoded_channels(channels, flat) ==
            [error |-> "", chunks |-> channels, filtered |-> flat,
             coders |-> <<ZlibExternalEncoder>>,
             encoded |-> ZlibExternalEncoder_encode_block(flat)]
        filtered_channels(channels) ==
            encoded_channels(channels, FilteredZlib_filter_channels(channels))
        channelified(r) ==
            IF r.raised
            THEN [error |-> "ValueError", chunks |-> <<>>, filtered |-> <<>>,
                  coders |-> <<>>, encoded |-> <<>>]
            ELSE filtered_channels(r.chunks)
    IN  channelified(FilteredZlib_channelify(dl))

(***************************************************************************)
(* png_compressors/filtered_lz_arithmetic.py.                              *)
(***************************************************************************)
\* FilteredLzArithmetic._encode_sequences_arithmetic: the coded flattened
\* stream behind its 32-bit length.  The coder is built from the counts of
\* the stream; no alphabet is written.
FilteredLzArithmetic_encode_sequences_arithmetic(seqs) ==
    LET framed(combined_encoding) ==
            uint_to_bitarray(Len(combined_encoding), 32) \o combined_encoding
    IN  framed(ArithmeticEncoder_encode_block(
                   list(get_alphabet(combined(seqs))), 0, combined(seqs)))

\* counts_list of _encode_literals_arithmetic: the count of every byte value.
counts_list(lits) ==
    [i \in 1..256 |-> Cardinality({j \in DOMAIN lits : lits[j] = i - 1})]

\* FilteredLzArithmetic._encode_literals_arithmetic: the Elias-delta coded
\* counts of the 256 byte values behind their 32-bit length, then the
\* literals coded over the alphabet of the buffer behind their 32-bit length.
FilteredLzArithmetic_encode_literals_arithmetic(lits) ==
    IF Len(lits) = 0 THEN uint_to_bitarray(0, 32)
    ELSE LET framed(counts_encoding, literals_enc) ==
                 uint_to_bitarray(Len(counts_encoding), 32) \o counts_encoding
                 \o uint_to_bitarray(Len(literals_enc), 32) \o literals_enc
         IN  framed(EliasDeltaUintEncoder_encode_block(counts_list(lits)).bits,
                    ArithmeticEncoder_encode_block(list(get_alphabet(lits)), 1,
                                                   lits))

\* FilteredLzArithmetic._lz_with_arithmetic on the parse of the block.
_lz_with_arithmetic(seqs, lits) ==
    [sequence_encoding |-> FilteredLzArithmetic_encode_sequences_arithmetic(seqs),
     literals_encoding |-> FilteredLzArithmetic_encode_literals_arithmetic(lits)]

\* LZ77Encoder().lz77_parse_and_generate_sequences: the greedy longest-match
\* parse.  The number of bytes from position pos (1-based) on that repeat
\* the bytes o positions before them, given that l of them do.
RECURSIVE match_length_at(_, _, _, _)
match_length_at(data, pos, o, l) ==
    IF pos + l <= Len(data) /\ data[pos + l] = data[pos + l - o]
    THEN match_length_at(data, pos, o, l + 1)
    ELSE l

\* The offset of the longest match at pos, the nearest one among the longest
\* (0 when pos is the first byte).
best_match_offset(data, pos) ==
    IF pos = 1 THEN 0
    ELSE CHOOSE o \in 1..(pos - 1) :
             \A o2 \in 1..(pos - 1) :
                 \/ match_length_at(data, pos, o, 0)
                        > match_length_at(data, pos, o2, 0)
                 \/ /\ match_length_at(data, pos, o, 0)
                           = match_length_at(data, pos, o2, 0)
                    /\ o <= o2

\* The parse loop: pos is the next byte to look at, start the first byte of
\* the pending literals.  A match of min_match_length bytes or more ends the
\* pending literals; the trailing literals go to the end-of-stream sequence.
RECURSIVE lz77_parse_loop(_, _, _, _, _)
lz77_parse_loop(data, pos, start, seqs, lits) ==
    IF pos > Len(data)
    THEN IF start > Len(data) THEN <<seqs, lits>>
         ELSE <<Append(seqs, LZ77Sequence(pos - start, 0, 0)),
                lits \o SubSeq(data, start, Len(data))>>
    ELSE LET matched(o, l) ==
                 IF o > 0 /\ l >= min_match_length
                 THEN lz77_parse_loop(data, pos + l, pos + l,
                          Append(seqs, LZ77Sequence(pos - start, l, o)),
                          lits \o SubSeq(data, start, pos - 1))
                 ELSE lz77_parse_loop(data, pos + 1, start, seqs, lits)
             longest(o) ==
                 matched(o, IF o = 0 THEN 0 ELSE match_length_at(data, pos, o, 0))
         IN  longest(best_match_offset(data, pos))

lz77_parse_and_generate_sequences(data) ==
    lz77_parse_loop(data, 1, 1, <<>>, <<>>)

\* FilteredLzArithmetic.encode_block on a block of all the channels.
FilteredLzArithmetic_encode_block(dl) ==
    LET encoded_parse(channels, flat, parse, r) ==
            [error |-> "", chunks |-> channels, filter_types |-> <<>>,
             filtered |-> flat, coders |-> <<>>,
             sequences |-> parse[1], literals |-> parse[2],
             sequence_encoding |-> r.sequence_encoding,
             literals_encoding |-> r.literals_encoding,
             encoded |-> r.sequence_encoding \o r.literals_encoding]
        parsed(channels, flat, parse) ==
            encoded_parse(channels, flat, parse,
                          _lz_with_arithmetic(parse[1], parse[2]))
        filtered_channels(channels, flat) ==
            parsed(channels, flat, lz77_parse_and_generate_sequences(flat))
        channelified(r) ==
            IF r.raised
            THEN [error |-> "ValueError", chunks |-> <<>>,
                  filter_types |-> <<>>, filtered |-> <<>>, coders |-> <<>>,
                  sequences |-> <<>>, literals |-> <<>>,
                  sequence_encoding |-> <<>>, literals_encoding |-> <<>>,
                  encoded |-> <<>>]
            ELSE filtered_channels(r.chunks, _filter_channels(r.chunks))
    IN  channelified(_channelify(dl))

\* self.encode_block of the encoder object.
encode_block(dl) ==
    IF encoder = "FilteredArithmetic" THEN FilteredArithmetic_encode_block(dl)
    ELSE IF encoder = "FilteredLzArithmetic"
    THEN [f \in DOMAIN Raised("") |-> FilteredLzArithmetic_encode_block(dl)[f]]
    ELSE FilteredZstd_encode_block(dl)

(***************************************************************************)
(* CoreEncoder.encode_image (png_compressors/core_encoder.py).             *)
(***************************************************************************)
\* image.convert("RGB") of PIL on a greyscale image ("L", or "LA" whose
\* alpha band is dropped): the grey band is the red, green and blue band.
convert_RGB(img) ==
    [mode |-> "RGB", bands |-> <<img.bands[1], img.bands[1], img.bands[1]>>]

\* The header with the height written in front of the width.
image_header_height_first ==
    LET encoded_width == uint_to_bitarray_min(width)
        encoded_height == uint_to_bitarray_min(height)
    IN  uint_to_bitarray(Len(encoded_height), 32) \o encoded_height
        \o uint_to_bitarray(Len(encoded_width), 32) \o encoded_width

\* The dimensions of the encoder, each behind the 32-bit count of its bits.
image_header ==
    LET encoded_width == uint_to_bitarray_min(width)
        encoded_height == uint_to_bitarray_min(height)
    IN  uint_to_bitarray(Len(encoded_width), 32) \o encoded_width
        \o uint_to_bitarray(Len(encoded_height), 32) \o encoded_height

\* The loop over the bands (i is the 0-based band index): the encoding of
\* each channel is appended; an exception of encode_block ends the call.
RECURSIVE encode_image_loop(_, _, _)
encode_image_loop(bands, i, acc) ==
    IF i >= Len(bands) \/ acc.error # "" THEN acc
    ELSE LET appended(r) ==
                 IF r.error # "" THEN Raised(r.error)
                 ELSE [acc EXCEPT !.coders = @ \o r.coders,
                                  !.encoded = @ \o r.encoded]
         IN  encode_image_loop(bands, i + 1,
                               appended(encode_block(bands[i + 1])))

\* CoreEncoder.encode_image.
encode_image(img) ==
    LET converted == IF img.mode # "RGB" /\ img.mode # "RGBA"
                     THEN convert_RGB(img) ELSE img
    IN  encode_image_loop(converted.bands, 0,
            [Raised("") EXCEPT !.encoded = image_header])

(***************************************************************************)
(* analysis/file_comparison.py.  FilterHeuristic is imported from          *)
(* png_tools/png_filters.py, whose version here does not define it: its    *)
(* two members are taken from the design document, and the constructors    *)
(* of the drivers are taken to store the keyword arguments get_encoder     *)
(* gives them.                                                             *)
(***************************************************************************)
\* str.lower() on the names the calls are made with.
lower(s) ==
    CASE s = "FilteredZlib" -> "filteredzlib"
      [] s = "Arithmetic1" -> "arithmetic1"
      [] s = "DiffSum" -> "diffsum"
      [] OTHER -> s

\* What get_encoder leaves: the exception it raised (if any) and the encoder
\* it constructed.
Encoder(class, prepend, h, k) ==
    [error |-> "", class |-> class, prepend_filter_type |-> prepend,
     heuristic |-> h, order |-> k]

\* get_encoder(encoder_name, width, height, separate, verbose, heuristic).
get_encoder(name, sep, h) ==
    LET sanitized == lower(name)
    IN  IF sanitized = "filteredzlib" \/ sanitized = "filtered_zlib"
        THEN Encoder("FilteredZlib", sep, h, 0)
        ELSE IF sanitized = "filteredzstd" \/ sanitized = "filtered_zstd"
        THEN Encoder("FilteredZstd", sep, h, 0)
        ELSE IF sanitized = "filteredlzarithmetic"
        THEN Encoder("FilteredLzArithmetic", sep, h, 0)
        ELSE IF sanitized = "arithmetic0" \/ sanitized = "filtered_arithmetic0"
        THEN Encoder("FilteredArithmetic", sep, h, 0)
        ELSE IF sanitized = "arithmetic1" \/ sanitized = "filtered_arithmetic1"
        THEN Encoder("FilteredArithmetic", sep, h, 1)
        ELSE IF sanitized = "arithmetic2" \/ sanitized = "filtered_arithmetic2"
        THEN Encoder("FilteredArithmetic", sep, h, 2)
        ELSE IF sanitized = "arithmetic3" \/ sanitized = "filtered_arithmetic3"
        THEN Encoder("FilteredArithmetic", sep, h, 3)
        ELSE IF sanitized = "arithmetic4" \/ sanitized = "filtered_arithmetic4"
        THEN Encoder("FilteredArithmetic", sep, h, 4)
        ELSE [Encoder("", FALSE, "", 0) EXCEPT !.error = "ValueError"]

\* get_heuristic(heuristic): a member of FilterHeuristic, or None.
get_heuristic(h) ==
    LET sanitized == lower(h)
    IN  IF sanitized = "sum" THEN "ABSOLUTE_MINIMUM_SUM"
        ELSE IF sanitized = "diffsum" THEN "MINIMUM_DIFFERENCE_SUM"
        ELSE "None"

(***************************************************************************)
(* Inputs.                                                                 *)
(***************************************************************************)
PredictorOps == {"none", "sub", "up", "average", "paeth"}
ScanlineOps == PredictorOps \cup {"choose_filter"}

\* <<curr, prev>> of the unit tests of png_filters.py and of the documented
\* scenarios.
TestLines ==
    { << <<1, 2, 3, 4>>, <<10, 9, 8, 7>> >>,
      << <<255, 128, 71, 18>>, <<0, 0, 0, 0>> >>,
      << <<0, 0, 0, 0>>, <<255, 255, 255, 255>> >>,
      << <<1, 1, 1, 1>>, <<255, 255, 255, 255>> >>,
      << <<255, 255, 255>>, <<255, 255, 255>> >>,
      << <<4, 10, 30>>, <<8, 16, 50>> >>,
      << <<5, 5, 5>>, <<1, 2, 3>> >> }

\* <<width, height, channel>> of test_filter_channel and of the documented
\* all-255 scenario.
TestChannels ==
    { <<3, 4, <<1, 2, 3, 5, 5, 5, 5, 5, 5, 0, 1, 0>> >>,
      <<3, 2, <<255, 255, 255, 255, 255, 255>> >>,
      <<3, 1, <<0, 0, 0>> >> }

\* <<width, height, data_list>> of test_filter_channels and of
\* test_encoder_constructs (filtered_zlib.py, filtered_lz_arithmetic.py).
TestBlocks ==
    { <<3, 2, <<4, 8, 25, 2, 5, 15, 4, 8, 25, 2, 5, 15, 4, 8, 25, 2, 5, 15>> >>,
      <<2, 2, <<1, 2, 3, 4, 255, 254, 253, 252, 67, 189, 53, 90,
                39, 82, 102, 85>> >> }

Idle ==
    /\ pc = "call"
    /\ ret_type = -1 /\ ret_line = <<>>
    /\ chunks = <<>> /\ filter_types = <<>> /\ filtered = <<>> /\ decoded = <<>>

InitScanline ==
    /\ op \in ScanlineOps
    /\ width = 0 /\ height = 0
    /\ \/ \E n \in 1..MaxLen : curr \in Lines(n, Bytes) /\ prev \in Lines(n, Bytes)
       \/ \E t \in TestLines : curr = t[1] /\ prev = t[2]
    /\ pargs = <<>> /\ channel = <<>> /\ data_list = <<>>
    /\ Idle

InitPaethPredictor ==
    /\ op = "paethPredictor"
    /\ width = 0 /\ height = 0
    /\ curr = <<>> /\ prev = <<>>
    /\ pargs \in PaethBytes \X PaethBytes \X PaethBytes
    /\ channel = <<>> /\ data_list = <<>>
    /\ Idle

InitFilterChannel ==
    /\ op = "_filter_channel"
    /\ \/ /\ width \in 1..MaxPixels /\ height \in 1..MaxPixels
          /\ width * height <= MaxPixels
          /\ \E n \in 1..MaxPixels : channel \in Lines(n, Bytes)
       \/ \E t \in TestChannels : width = t[1] /\ height = t[2] /\ channel = t[3]
    /\ curr = <<>> /\ prev = <<>> /\ pargs = <<>> /\ data_list = <<>>
    /\ Idle

InitBlock ==
    /\ op = "_channelify"
    /\ \/ /\ width \in 1..MaxBlockLen /\ height \in 1..MaxBlockLen
          /\ 3 * width * height <= MaxBlockLen
          /\ \E n \in 0..MaxBlockLen : data_list \in Lines(n, BlockBytes)
       \/ \E t \in TestBlocks : width = t[1] /\ height = t[2] /\ data_list = t[3]
    /\ curr = <<>> /\ prev = <<>> /\ pargs = <<>> /\ channel = <<>>
    /\ Idle

\* No encoder object is involved in the call.
NoEncoder ==
    /\ encoder = "" /\ prepend_filter_type = FALSE /\ order = 0
    /\ coders = <<>> /\ encoded = <<>> /\ error = ""
    /\ image = [mode |-> "", bands |-> <<>>]

\* The encoders get_encoder can build on one channel: FilteredArithmetic of
\* some order and FilteredZstd, with and without prepend_filter_type.
Orders == {0, 1, 4}

InitEncoder ==
    /\ encoder \in {"FilteredArithmetic", "FilteredZstd"}
    /\ prepend_filter_type \in BOOLEAN
    /\ order \in IF encoder = "FilteredArithmetic" THEN Orders ELSE {0}
    /\ coders = <<>> /\ encoded = <<>> /\ error = ""

\* <<width, height, data_list>> of test_encoder_constructs
\* (filtered_arithmetic.py, filtered_zstd.py).
TestChannelBlocks ==
    { <<4, 4, <<1, 2, 3, 4, 255, 254, 253, 252, 67, 189, 53, 90,
                39, 82, 102, 85>> >> }

InitEncodeBlock ==
    /\ op = "encode_block"
    /\ InitEncoder
    /\ image = [mode |-> "", bands |-> <<>>]
    /\ \/ /\ width \in 1..MaxPixels /\ height \in 1..MaxPixels
          /\ width * height <= MaxPixels
          /\ \E n \in 0..MaxPixels : data_list \in Lines(n, BlockBytes)
       \/ \E t \in TestChannelBlocks :
              width = t[1] /\ height = t[2] /\ data_list = t[3]
    /\ curr = <<>> /\ prev = <<>> /\ pargs = <<>> /\ channel = <<>>
    /\ Idle

\* Images of n pixels: band c holds seed + c, seed + c + 1, ... (mod 256).
ImageSeeds == {0, 127, 254}
ImageModes == {"RGB", "RGBA", "L"}

NumBands(mode) == IF mode = "RGBA" THEN 4 ELSE IF mode = "RGB" THEN 3 ELSE 1

TestImage(mode, n, seed) ==
    [mode |-> mode,
     bands |-> [c \in 1..NumBands(mode) |->
                   [i \in 1..n |-> (seed + c + i - 2) % 256]]]

\* The RGBA image of 2 x 2 pixels whose channels are all [1, 2, 3, 4].
SameChannelsImage ==
    [mode |-> "RGBA", bands |-> [c \in 1..4 |-> <<1, 2, 3, 4>>]]

InitEncodeImage ==
    /\ op = "encode_image"
    /\ InitEncoder
    /\ \/ /\ width \in 1..MaxImagePixels /\ height \in 1..MaxImagePixels
          /\ width * height <= MaxImagePixels
          /\ \E mode \in ImageModes, n \in 1..MaxImagePixels, seed \in ImageSeeds :
                 image = TestImage(mode, n, seed)
       \/ width = 2 /\ height = 2 /\ image = SameChannelsImage
       \/ width = 5 /\ height = 1 /\ image = TestImage("RGB", 5, 0)
    /\ curr = <<>> /\ prev = <<>> /\ pargs = <<>> /\ channel = <<>>
    /\ data_list = <<>>
    /\ Idle

\* No LZ77 parse is involved in the call.
NoLz ==
    /\ sequences = <<>> /\ literals = <<>>
    /\ sequence_encoding = <<>> /\ literals_encoding = <<>>
    /\ decoded_sequences = <<>> /\ num_bits_consumed_sequences = 0
    /\ decoded_literals = <<>> /\ num_bits_consumed_literals = 0

\* The sequences a parse is made of: matches of min_match_length bytes or
\* more, and the end-of-stream form with match_length = 0.
ParseSequences ==
    { LZ77Sequence(lc, ml, mo) :
          lc \in {0, 1, 2},
          ml \in {0, min_match_length, min_match_length + 1},
          mo \in {0, 1, 2} }

\* A parse the parser can give: every match starts inside the output so
\* far, and the end-of-stream form comes last only.
RECURSIVE ValidParse(_, _)
ValidParse(seqs, outlen) ==
    IF seqs = <<>> THEN TRUE
    ELSE LET s == Head(seqs)
         IN  IF s.match_length = 0
             THEN Len(seqs) = 1 /\ s.match_offset = 0
             ELSE /\ s.match_offset >= 1
                  /\ s.match_offset <= outlen + s.literal_count
                  /\ ValidParse(Tail(seqs),
                                outlen + s.literal_count + s.match_length)

RECURSIVE sum(_)
sum(counts) == IF counts = <<>> THEN 0 ELSE Head(counts) + sum(Tail(counts))

ParseBytes == {65, 66}
LiteralBytes == {0, 65, 255}

\* The parse of b"AAAAAAAAAA": one literal, then a match of 9 bytes.
TenAs == << LZ77Sequence(1, 9, 1) >>

InitLzArithmetic ==
    /\ op = "LzArithmetic"
    /\ \/ \E n \in 0..MaxSequences :
              /\ sequences \in [1..n -> ParseSequences]
              /\ ValidParse(sequences, 0)
              /\ literals \in Lines(sum(literal_counts(sequences)), ParseBytes)
       \/ sequences = TenAs /\ literals = <<65>>
    /\ data_list = execute_lz77_sequences(literals, sequences, <<>>)
    /\ sequence_encoding = <<>> /\ literals_encoding = <<>>
    /\ decoded_sequences = <<>> /\ num_bits_consumed_sequences = 0
    /\ decoded_literals = <<>> /\ num_bits_consumed_literals = 0
    /\ width = 0 /\ height = 0
    /\ curr = <<>> /\ prev = <<>> /\ pargs = <<>> /\ channel = <<>>
    /\ Idle
    /\ NoEncoder

InitLzLiterals ==
    /\ op = "_encode_literals_arithmetic"
    /\ sequences = <<>>
    /\ \E n \in 0..MaxLiterals : literals \in Lines(n, LiteralBytes)
    /\ data_list = <<>>
    /\ sequence_encoding = <<>> /\ literals_encoding = <<>>
    /\ decoded_sequences = <<>> /\ num_bits_consumed_sequences = 0
    /\ decoded_literals = <<>> /\ num_bits_consumed_literals = 0
    /\ width = 0 /\ height = 0
    /\ curr = <<>> /\ prev = <<>> /\ pargs = <<>> /\ channel = <<>>
    /\ Idle
    /\ NoEncoder

\* FilteredZlib(width, height) and the block of all the channels given to
\* its encode_block.
InitZlibBlock ==
    /\ op = "FilteredZlib.encode_block"
    /\ encoder = "FilteredZlib" /\ prepend_filter_type = FALSE /\ order = 0
    /\ coders = <<>> /\ encoded = <<>> /\ error = ""
    /\ image = [mode |-> "", bands |-> <<>>]
    /\ \/ /\ width \in 1..MaxBlockLen /\ height \in 1..MaxBlockLen
          /\ 3 * width * height <= MaxBlockLen
          /\ \E n \in 0..MaxBlockLen : data_list \in Lines(n, BlockBytes)
       \/ \E t \in TestBlocks : width = t[1] /\ height = t[2] /\ data_list = t[3]
    /\ curr = <<>> /\ prev = <<>> /\ pargs = <<>> /\ channel = <<>>
    /\ Idle

\* The parse of the block given to FilteredLzArithmetic._lz_with_arithmetic.
InitLzWithArithmetic ==
    /\ op = "_lz_with_arithmetic"
    /\ \/ \E n \in 0..MaxSequences :
              /\ sequences \in [1..n -> ParseSequences]
              /\ ValidParse(sequences, 0)
              /\ literals \in Lines(sum(literal_counts(sequences)), ParseBytes)
       \/ sequences = TenAs /\ literals = <<65>>
    /\ data_list = execute_lz77_sequences(literals, sequences, <<>>)
    /\ sequence_encoding = <<>> /\ literals_encoding = <<>>
    /\ decoded_sequences = <<>> /\ num_bits_consumed_sequences = 0
    /\ decoded_literals = <<>> /\ num_bits_consumed_literals = 0
    /\ width = 0 /\ height = 0
    /\ curr = <<>> /\ prev = <<>> /\ pargs = <<>> /\ channel = <<>>
    /\ Idle
    /\ encoder = "FilteredLzArithmetic" /\ prepend_filter_type = FALSE
    /\ order = 0 /\ coders = <<>> /\ encoded = <<>> /\ error = ""
    /\ image = [mode |-> "", bands |-> <<>>]

\* Sample values of the bytes of a block given to FilteredLzArithmetic.
LzBlockBytes == {1, 2}

\* FilteredLzArithmetic(width, height) and the block of all the channels
\* given to its encode_block.
InitLzBlock ==
    /\ op = "FilteredLzArithmetic.encode_block"
    /\ encoder = "FilteredLzArithmetic" /\ prepend_filter_type = FALSE
    /\ order = 0 /\ coders = <<>> /\ encoded = <<>> /\ error = ""
    /\ image = [mode |-> "", bands |-> <<>>]
    /\ \/ /\ width \in 1..MaxBlockLen /\ height \in 1..MaxBlockLen
          /\ 3 * width * height <= MaxBlockLen
          /\ \E n \in 0..MaxBlockLen : data_list \in Lines(n, LzBlockBytes)
       \/ \E t \in TestBlocks : width = t[1] /\ height = t[2] /\ data_list = t[3]
    /\ curr = <<>> /\ prev = <<>> /\ pargs = <<>> /\ channel = <<>>
    /\ Idle

\* FilteredLzArithmetic(width, height) and an image of width by height
\* pixels given to its encode_image.
InitLzImage ==
    /\ op = "encode_image"
    /\ encoder = "FilteredLzArithmetic" /\ prepend_filter_type = FALSE
    /\ order = 0 /\ coders = <<>> /\ encoded = <<>> /\ error = ""
    /\ width \in 1..MaxImagePixels /\ height \in 1..MaxImagePixels
    /\ width * height <= MaxImagePixels
    /\ \E mode \in ImageModes, seed \in ImageSeeds :
           image = TestImage(mode, width * height, seed)
    /\ curr = <<>> /\ prev = <<>> /\ pargs = <<>> /\ channel = <<>>
    /\ data_list = <<>>
    /\ Idle

\* Compressor names: those of the documented command line, the other
\* spellings get_encoder knows, and names of no compressor.
DocumentedNames ==
    {"filtered_zlib", "filtered_zstd", "filtered_lz_arithmetic", "arithmetic0",
     "arithmetic1", "arithmetic2", "arithmetic3", "arithmetic4"}
\* The members of png_tools.png_filters.FilterHeuristic.
FilterHeuristic == {"ABSOLUTE_MINIMUM_SUM", "MINIMUM_DIFFERENCE_SUM"}

OtherSpellings ==
    {"FilteredZlib", "filteredzstd", "filteredlzarithmetic", "Arithmetic1",
     "filtered_arithmetic4"}
UnknownNames == {"", "gzip", "arithmetic5", "filtered_arithmetic"}

\* Heuristic names: the two of the command line and names of no heuristic.
HeuristicNames == {"sum", "diffsum", "DiffSum", "entropy", ""}

\* compare_file(filename, encoder_name, separate, verbose, heuristic) on an
\* image of width by height pixels.
InitCompareFile ==
    /\ op = "compare_file"
    /\ encoder_name \in DocumentedNames \cup OtherSpellings \cup UnknownNames
    /\ separate \in BOOLEAN
    /\ heuristic \in HeuristicNames
    /\ chosen_heuristic = "" /\ self_heuristic = ""
    /\ width \in 1..MaxImagePixels /\ height \in 1..MaxImagePixels
    /\ width * height <= MaxImagePixels
    /\ \E mode \in ImageModes : image = TestImage(mode, width * height, 0)
    /\ encoder = "" /\ prepend_filter_type = FALSE /\ order = 0
    /\ coders = <<>> /\ encoded = <<>> /\ error = ""
    /\ curr = <<>> /\ prev = <<>> /\ pargs = <<>> /\ channel = <<>>
    /\ data_list = <<>>
    /\ Idle

\* compare_file is not involved in the call.
NoCli ==
    /\ encoder_name = "" /\ separate = FALSE /\ heuristic = ""
    /\ chosen_heuristic = "" /\ self_heuristic = ""

\* Sample bytes of small signed and large unsigned value.
HeuristicBytes == {0, 1, 255}

\* CoreEncoder._filter_channel of an encoder constructed with heuristic=h, h a
\* member of FilterHeuristic, outside compare_file.
InitConfiguredFilterChannel ==
    /\ op = "_filter_channel"
    /\ width \in 1..MaxPixels /\ height \in 1..MaxPixels
    /\ width * height <= MaxPixels
    /\ \E n \in 1..MaxPixels : channel \in Lines(n, HeuristicBytes)
    /\ curr = <<>> /\ prev = <<>> /\ pargs = <<>> /\ data_list = <<>>
    /\ Idle
    /\ encoder_name = "" /\ separate = FALSE /\ heuristic = ""
    /\ chosen_heuristic = ""
    /\ self_heuristic \in FilterHeuristic

Init ==
    \/ (InitScanline \/ InitPaethPredictor \/ InitFilterChannel \/ InitBlock)
       /\ NoEncoder /\ NoLz /\ NoCli
    \/ (InitEncodeBlock \/ InitEncodeImage) /\ NoLz /\ NoCli
    \/ InitLzArithmetic /\ NoCli
    \/ InitLzLiterals /\ NoCli
    \/ InitZlibBlock /\ NoLz /\ NoCli
    \/ InitLzWithArithmetic /\ NoCli
    \/ (InitLzBlock \/ InitLzImage) /\ NoLz /\ NoCli
    \/ InitCompareFile /\ NoLz
    \/ InitConfiguredFilterChannel /\ NoEncoder /\ NoLz

(***************************************************************************)
(* Actions: one per operation.                                             *)
(***************************************************************************)
Return(type, line) ==
    /\ ret_type' = type
    /\ ret_line' = line
    /\ pc' = "done"
    /\ UNCHANGED <<clivars, lzvars, encvars, op, width, height, curr, prev, pargs, channel, data_list,
                   chunks, filter_types, filtered, decoded>>

CallNone == op = "none" /\ pc = "call" /\ Return(none(curr)[2], none(curr)[1])

CallSub == op = "sub" /\ pc = "call" /\ Return(sub(curr)[2], sub(curr)[1])

CallUp == op = "up" /\ pc = "call" /\ Return(up(curr, prev)[2], up(curr, prev)[1])

CallAverage ==
    op = "average" /\ pc = "call"
    /\ Return(average(curr, prev)[2], average(curr, prev)[1])

CallPaeth ==
    op = "paeth" /\ pc = "call" /\ Return(paeth(curr, prev)[2], paeth(curr, prev)[1])

CallPaethPredictor ==
    op = "paethPredictor" /\ pc = "call"
    /\ Return(paethPredictor(pargs[1], pargs[2], pargs[3]), <<>>)

CallChooseFilter ==
    op = "choose_filter" /\ pc = "call"
    /\ Return(choose_filter(curr, prev)[1], choose_filter(curr, prev)[2])

\* CoreEncoder._filter_channel on one channel.
FilterChannel ==
    /\ op = "_filter_channel" /\ pc = "call"
    /\ IF reshape_ok(channel, height, width)
       THEN /\ filter_types' = _filter_channel(channel)[1]
            /\ filtered' = _filter_channel(channel)[2]
            /\ pc' = "done"
       ELSE /\ pc' = "raised"
            /\ UNCHANGED <<filter_types, filtered>>
    /\ UNCHANGED <<clivars, lzvars, encvars, op, width, height, curr, prev, pargs, channel, data_list,
                   chunks, ret_type, ret_line, decoded>>

\* CoreEncoder._channelify on a block of all the channels.
Channelify ==
    /\ op = "_channelify" /\ pc = "call"
    /\ LET r == _channelify(data_list)
       IN  /\ pc' = IF r.raised THEN "raised" ELSE "channels"
           /\ chunks' = r.chunks
    /\ UNCHANGED <<clivars, lzvars, encvars, op, width, height, curr, prev, pargs, channel, data_list,
                   ret_type, ret_line, filter_types, filtered, decoded>>

\* CoreEncoder._filter_channels on the channels of the block.
FilterChannels ==
    /\ pc = "channels"
    /\ filtered' = _filter_channels(chunks)
    /\ pc' = "filtered"
    /\ UNCHANGED <<clivars, lzvars, encvars, op, width, height, curr, prev, pargs, channel, data_list,
                   chunks, ret_type, ret_line, filter_types, decoded>>

\* CoreDecoder._reverse_filter_channels on the filtered stream.
ReverseFilterChannels ==
    /\ pc = "filtered"
    /\ decoded' = _reverse_filter_channels(filtered)
    /\ pc' = "reversed"
    /\ UNCHANGED <<clivars, lzvars, encvars, op, width, height, curr, prev, pargs, channel, data_list,
                   chunks, ret_type, ret_line, filter_types, filtered>>

\* encode_block of the encoder on one channel.
EncodeBlock ==
    /\ op = "encode_block" /\ pc = "call"
    /\ \E r \in {encode_block(data_list)} :
           /\ pc' = IF r.error = "" THEN "done" ELSE "raised"
           /\ error' = r.error
           /\ filter_types' = r.filter_types
           /\ filtered' = r.filtered
           /\ coders' = r.coders
           /\ encoded' = r.encoded
    /\ UNCHANGED <<clivars, op, width, height, curr, prev, pargs, channel, data_list,
                   chunks, ret_type, ret_line, decoded, encoder,
                   prepend_filter_type, order, image, lzvars>>

\* CoreEncoder.encode_image on an image.
EncodeImage ==
    /\ op = "encode_image" /\ pc = "call"
    /\ \E r \in {encode_image(image)} :
           /\ pc' = IF r.error = "" THEN "done" ELSE "raised"
           /\ error' = r.error
           /\ coders' = r.coders
           /\ encoded' = r.encoded
    /\ UNCHANGED <<clivars, op, width, height, curr, prev, pargs, channel, data_list,
                   chunks, ret_type, ret_line, filter_types, filtered,
                   decoded, encoder, prepend_filter_type, order, image,
                   lzvars>>

\* LzArithmeticEncoder.encode_block on the parse of the block.
LzEncodeBlock ==
    /\ op = "LzArithmetic" /\ pc = "call"
    /\ \E r \in {LzArithmeticEncoder_encode_block(sequences, literals)} :
           /\ pc' = IF r.error = "" THEN "encoded" ELSE "raised"
           /\ error' = r.error
           /\ sequence_encoding' = r.sequence_encoding
           /\ literals_encoding' = r.literals_encoding
           /\ encoded' = r.sequence_encoding \o r.literals_encoding
    /\ UNCHANGED <<clivars, op, width, height, curr, prev, pargs, channel, data_list,
                   chunks, ret_type, ret_line, filter_types, filtered,
                   decoded, encoder, prepend_filter_type, order, coders,
                   image, sequences, literals, decoded_sequences,
                   num_bits_consumed_sequences, decoded_literals,
                   num_bits_consumed_literals>>

\* LzArithmeticDecoder.decode_block on the encoded block.
LzDecodeBlock ==
    /\ op = "LzArithmetic" /\ pc = "encoded"
    /\ \E r \in {decode_block(encoded)} :
           /\ pc' = IF r.error = "" THEN "done" ELSE "raised"
           /\ error' = r.error
           /\ decoded' = r.decoded_block
           /\ decoded_sequences' = r.sequences
           /\ num_bits_consumed_sequences' = r.num_bits_consumed_sequences
           /\ decoded_literals' = r.literals
           /\ num_bits_consumed_literals' = r.num_bits_consumed_literals
    /\ UNCHANGED <<clivars, op, width, height, curr, prev, pargs, channel, data_list,
                   chunks, ret_type, ret_line, filter_types, filtered,
                   encoder, prepend_filter_type, order, coders,
                   image, encoded, sequences, literals, sequence_encoding,
                   literals_encoding>>

\* LzArithmeticEncoder._encode_literals_arithmetic on a literal buffer.
LzEncodeLiterals ==
    /\ op = "_encode_literals_arithmetic" /\ pc = "call"
    /\ literals_encoding' = _encode_literals_arithmetic(literals)
    /\ pc' = "literals_encoded"
    /\ UNCHANGED <<clivars, op, width, height, curr, prev, pargs, channel, data_list,
                   chunks, ret_type, ret_line, filter_types, filtered,
                   decoded, encvars, sequences, literals, sequence_encoding,
                   decoded_sequences, num_bits_consumed_sequences,
                   decoded_literals, num_bits_consumed_literals>>

\* LzArithmeticDecoder._decode_literals on the encoded literals.
LzDecodeLiterals ==
    /\ op = "_encode_literals_arithmetic" /\ pc = "literals_encoded"
    /\ \E r \in {_decode_literals(literals_encoding)} :
           /\ pc' = IF r.error = "" THEN "done" ELSE "raised"
           /\ error' = r.error
           /\ decoded_literals' = r.data
           /\ num_bits_consumed_literals' = r.bits
    /\ UNCHANGED <<clivars, op, width, height, curr, prev, pargs, channel, data_list,
                   chunks, ret_type, ret_line, filter_types, filtered,
                   decoded, encoder, prepend_filter_type, order, coders,
                   image, encoded, sequences, literals, sequence_encoding,
                   literals_encoding, decoded_sequences,
                   num_bits_consumed_sequences>>

\* FilteredZlib.encode_block on a block of all the channels.
ZlibEncodeBlock ==
    /\ op = "FilteredZlib.encode_block" /\ pc = "call"
    /\ \E r \in {FilteredZlib_encode_block(data_list)} :
           /\ pc' = IF r.error = "" THEN "done" ELSE "raised"
           /\ error' = r.error
           /\ chunks' = r.chunks
           /\ filtered' = r.filtered
           /\ coders' = r.coders
           /\ encoded' = r.encoded
    /\ UNCHANGED <<clivars, lzvars, op, width, height, curr, prev, pargs,
                   channel, data_list, ret_type, ret_line, filter_types,
                   decoded, encoder, prepend_filter_type, order, image>>

\* FilteredLzArithmetic._lz_with_arithmetic on the parse of the block.
LzWithArithmetic ==
    /\ op = "_lz_with_arithmetic" /\ pc = "call"
    /\ \E r \in {_lz_with_arithmetic(sequences, literals)} :
           /\ sequence_encoding' = r.sequence_encoding
           /\ literals_encoding' = r.literals_encoding
           /\ encoded' = r.sequence_encoding \o r.literals_encoding
    /\ pc' = "done"
    /\ UNCHANGED <<clivars, op, width, height, curr, prev, pargs, channel,
                   data_list, chunks, ret_type, ret_line, filter_types,
                   filtered, decoded, encoder, prepend_filter_type, order,
                   coders, error, image, sequences, literals,
                   decoded_sequences, num_bits_consumed_sequences,
                   decoded_literals, num_bits_consumed_literals>>

\* FilteredLzArithmetic.encode_block on a block of all the channels.
FilteredLzEncodeBlock ==
    /\ op = "FilteredLzArithmetic.encode_block" /\ pc = "call"
    /\ \E r \in {FilteredLzArithmetic_encode_block(data_list)} :
           /\ pc' = IF r.error = "" THEN "done" ELSE "raised"
           /\ error' = r.error
           /\ chunks' = r.chunks
           /\ filtered' = r.filtered
           /\ sequences' = r.sequences
           /\ literals' = r.literals
           /\ sequence_encoding' = r.sequence_encoding
           /\ literals_encoding' = r.literals_encoding
           /\ encoded' = r.encoded
    /\ UNCHANGED <<clivars, op, width, height, curr, prev, pargs, channel,
                   data_list, ret_type, ret_line, filter_types, decoded,
                   encoder, prepend_filter_type, order, coders, image,
                   decoded_sequences, num_bits_consumed_sequences,
                   decoded_literals, num_bits_consumed_literals>>

\* compare_file: chosen_heuristic = get_heuristic(heuristic).
GetHeuristic ==
    /\ op = "compare_file" /\ pc = "call"
    /\ chosen_heuristic' = get_heuristic(heuristic)
    /\ pc' = "heuristic"
    /\ UNCHANGED <<lzvars, encvars, op, width, height, curr, prev, pargs,
                   channel, data_list, chunks, ret_type, ret_line,
                   filter_types, filtered, decoded, encoder_name, separate,
                   heuristic, self_heuristic>>

\* compare_file: encoder = get_encoder(encoder_name, image.width,
\* image.height, separate, verbose, heuristic), with the name of the
\* heuristic and not chosen_heuristic.
GetEncoder ==
    /\ op = "compare_file" /\ pc = "heuristic"
    /\ \E r \in {get_encoder(encoder_name, separate, heuristic)} :
           /\ pc' = IF r.error = "" THEN "configured" ELSE "raised"
           /\ error' = r.error
           /\ encoder' = r.class
           /\ prepend_filter_type' = r.prepend_filter_type
           /\ order' = r.order
           /\ self_heuristic' = r.heuristic
    /\ UNCHANGED <<lzvars, op, width, height, curr, prev, pargs, channel,
                   data_list, chunks, ret_type, ret_line, filter_types,
                   filtered, decoded, coders, encoded, image, encoder_name,
                   separate, heuristic, chosen_heuristic>>

\* compare_file: encoded = encoder.encode_image(image).  FilteredZlib is
\* not a CoreEncoder and has no encode_image.
CompareEncodeImage ==
    /\ op = "compare_file" /\ pc = "configured"
    /\ IF encoder = "FilteredZlib"
       THEN /\ pc' = "raised" /\ error' = "AttributeError"
            /\ UNCHANGED <<coders, encoded>>
       ELSE \E r \in {encode_image(image)} :
                /\ pc' = IF r.error = "" THEN "done" ELSE "raised"
                /\ error' = r.error
                /\ coders' = r.coders
                /\ encoded' = r.encoded
    /\ UNCHANGED <<clivars, lzvars, op, width, height, curr, prev, pargs,
                   channel, data_list, chunks, ret_type, ret_line,
                   filter_types, filtered, decoded, encoder,
                   prepend_filter_type, order, image>>

Next ==
    \/ CallNone
    \/ CallSub
    \/ CallUp
    \/ CallAverage
    \/ CallPaeth
    \/ CallPaethPredictor
    \/ CallChooseFilter
    \/ FilterChannel
    \/ Channelify
    \/ FilterChannels
    \/ ReverseFilterChannels
    \/ EncodeBlock
    \/ EncodeImage
    \/ LzEncodeBlock
    \/ LzDecodeBlock
    \/ LzEncodeLiterals
    \/ LzDecodeLiterals
    \/ ZlibEncodeBlock
    \/ LzWithArithmetic
    \/ FilteredLzEncodeBlock
    \/ GetHeuristic
    \/ GetEncoder
    \/ CompareEncodeImage

Spec == Init /\ [][Next]_vars

(***************************************************************************)
(* Properties.                                                             *)
(***************************************************************************)
Done(o) == op = o /\ pc = "done"

\* The residual of the predictor numbered f on (c, p).
Residual(f, c, p) ==
    CASE f = 0 -> none(c)[1]
      [] f = 1 -> sub(c)[1]
      [] f = 2 -> up(c, p)[1]
      [] f = 3 -> average(c, p)[1]
      [] f = 4 -> paeth(c, p)[1]

\* The value filter f predicts for a byte from its neighbours.
Predicted(f, l, u, ul) ==
    CASE f = 0 -> 0
      [] f = 1 -> l
      [] f = 2 -> u
      [] f = 3 -> (l + u) \div 2
      [] f = 4 -> paethPredictor(l, u, ul)

\* Reconstruction left to right: byte i is the residual plus the value
\* predicted from the reconstructed left byte and the bytes of p.
RECURSIVE Reconstruct(_, _, _, _)
Reconstruct(f, residual, p, acc) ==
    LET i == Len(acc) + 1
    IN  IF i > Len(residual) THEN acc
        ELSE Reconstruct(f, residual, p,
                 Append(acc,
                        (residual[i]
                         + Predicted(f, IF i = 1 THEN 0 ELSE acc[i - 1], p[i],
                                     IF i = 1 THEN 0 ELSE p[i - 1])) % 256))

\* C1: for every filter type, curr and prev, reconstructing left to right
\* from the residual a predictor returns, with the filter type it returns,
\* yields curr exactly.
C1_FilterInversion ==
    (op \in PredictorOps /\ pc = "done")
        => Reconstruct(ret_type, ret_line, prev, <<>>) = curr

C1_Witness ==
    /\ Done("average")
    /\ Len(curr) > 1
    /\ (prev[2] + curr[1]) % 2 = 1
    /\ ret_line # curr

\* C2: the stream _filter_channels produces is turned back into the original
\* channel bytes by _reverse_filter_channels.
C2_RoundTrip == pc = "reversed" => decoded = flatten(chunks)

\* The sum of the unsigned residual bytes of filter f on the call's scanlines.
Score(f) == np_sum(Residual(f, curr, prev))

\* C3: choose_filter returns a filter type whose residual sum is the
\* smallest of the five, and the lowest filter code among those that reach
\* that sum.
C3_SelectionCorrect ==
    Done("choose_filter")
        => \A g \in 0..4 :
              \/ Score(ret_type) < Score(g)
              \/ Score(ret_type) = Score(g) /\ ret_type <= g

C3_Witness ==
    /\ Done("choose_filter")
    /\ ret_type = 2
    /\ Score(2) = Score(4)
    /\ Score(2) > 0
    /\ Score(3) > Score(2)

\* C4: the pair choose_filter returns is consistent: a filter type in 0..4
\* and a residual as long as curr, made of bytes in 0..255, that is exactly
\* the output of the predictor of that type on (curr, prev).
C4_ChooseConsistent ==
    Done("choose_filter")
        => /\ ret_type \in 0..4
           /\ Len(ret_line) = Len(curr)
           /\ \A i \in 1..Len(ret_line) : ret_line[i] \in 0..255
           /\ ret_line = Residual(ret_type, curr, prev)

C4_Witness ==
    /\ Done("choose_filter")
    /\ ret_type = 3
    /\ ret_line # curr
    /\ ret_line # sub(curr)[1]

\* Paeth(a, b, c) of the filter table.
TablePaeth(a, b, c) ==
    LET p == a + b - c
    IN  IF abs(p - a) <= abs(p - b) /\ abs(p - a) <= abs(p - c) THEN a
        ELSE IF abs(p - b) <= abs(p - c) THEN b
        ELSE c

\* residual[i] of the filter table, left and upper_left being 0 at the
\* first byte.
TableResidual(name, c, p, i) ==
    LET l  == IF i = 1 THEN 0 ELSE c[i - 1]
        ul == IF i = 1 THEN 0 ELSE p[i - 1]
    IN  CASE name = "none" -> c[i]
          [] name = "sub" -> (c[i] - l) % 256
          [] name = "up" -> (c[i] - p[i]) % 256
          [] name = "average" -> (c[i] - ((l + p[i]) \div 2)) % 256
          [] name = "paeth" -> (c[i] - TablePaeth(l, p[i], ul)) % 256

\* C5: each predictor returns, at every index, the residual of the filter
\* table with left = 0 and upper_left = 0 at the first byte.
C5_PredictorTable ==
    (op \in PredictorOps /\ pc = "done")
        => /\ Len(ret_line) = Len(curr)
           /\ \A i \in 1..Len(curr) :
                 ret_line[i] = TableResidual(op, curr, prev, i)

C5_Witness ==
    /\ Done("sub")
    /\ Len(curr) > 1
    /\ curr[2] < curr[1]
    /\ curr[1] # curr[Len(curr)]

\* C6: paethPredictor returns left when its distance to p is no larger than
\* the other two, otherwise upper when its distance is no larger than that
\* of upper_left, otherwise upper_left: the nearest of the three, ties going
\* to left, then upper, then upper_left.
C6_PaethOrder ==
    Done("paethPredictor")
        => LET l == pargs[1]
               u == pargs[2]
               ul == pargs[3]
               p == l + u - ul
               d(x) == abs(p - x)
               nearest(x) == d(x) <= d(l) /\ d(x) <= d(u) /\ d(x) <= d(ul)
           IN  /\ ret_type = TablePaeth(l, u, ul)
               /\ nearest(l) => ret_type = l
               /\ (~nearest(l) /\ nearest(u)) => ret_type = u
               /\ (~nearest(l) /\ ~nearest(u)) => ret_type = ul

C6_Witness ==
    /\ Done("paethPredictor")
    /\ abs(pargs[2] - pargs[3]) = abs(pargs[1] + pargs[2] - 2 * pargs[3])
    /\ abs(pargs[2] - pargs[3]) < abs(pargs[1] - pargs[3])
    /\ pargs[1] # pargs[3]
    /\ ret_type = pargs[1]

AllWhite == <<255, 255, 255, 255, 255, 255>>

\* C7 as stated: for W=3, H=2 and six bytes equal to 255 the filter loop
\* picks None for row 0 and Up with residual [0,0,0] for row 1.
C7_Original ==
    (Done("_filter_channel") /\ width = 3 /\ height = 2 /\ channel = AllWhite)
        => /\ filter_types = <<0, 2>>
           /\ SubSeq(filtered, 4, 6) = <<0, 0, 0>>

\* C7 amended: for W=3, H=2 and six bytes equal to 255 the filter loop picks
\* Sub with residual [255,0,0] for row 0 and Up with residual [0,0,0] for
\* row 1.
C7_Amended ==
    (Done("_filter_channel") /\ width = 3 /\ height = 2 /\ channel = AllWhite)
        => /\ filter_types = <<1, 2>>
           /\ filtered = <<255, 0, 0, 0, 0, 0>>

C7_Witness ==
    Done("_filter_channel") /\ width = 3 /\ height = 2 /\ channel = AllWhite

\* Row r (from 1) of a flat channel of rows of w bytes.
RowOf(ch, w, r) == SubSeq(ch, (r - 1) * w + 1, r * w)

\* What choose_filter returns for row r of channel ch: prev is the original
\* row r - 1, or zeros for the first row.
ChosenFor(ch, r) ==
    choose_filter(RowOf(ch, width, r),
                  IF r = 1 THEN [i \in 1..width |-> 0]
                  ELSE RowOf(ch, width, r - 1))

\* C8: _filter_channel returns height filter types and width * height
\* residual bytes, row r being what choose_filter returns for the original
\* row r with prev the original row r - 1, or zeros for the first row.
C8_FilterChannelRows ==
    Done("_filter_channel")
        => /\ Len(filter_types) = height
           /\ Len(filtered) = width * height
           /\ \A r \in 1..height :
                 /\ filter_types[r] = ChosenFor(channel, r)[1]
                 /\ RowOf(filtered, width, r) = ChosenFor(channel, r)[2]

C8_Witness ==
    /\ Done("_filter_channel")
    /\ height > 1 /\ width > 1
    /\ filter_types[1] # 0
    /\ filter_types[2] = 4

\* The records of channel c in the flat stream of _filter_channels.
RecordsOf(c) ==
    SubSeq(filtered, (c - 1) * height * (width + 1) + 1,
           c * height * (width + 1))

\* C9: _filter_channels returns C * H * (W + 1) values: for each channel in
\* order and each of its rows in order, the filter type followed by the W
\* residual bytes choose_filter returns for that row within its own channel
\* (zeros above the first row); equal channels give equal records.
C9_FlatRecords ==
    pc = "filtered"
        => /\ Len(filtered) = Len(chunks) * height * (width + 1)
           /\ \A c \in 1..Len(chunks) : \A r \in 1..height :
                 RowOf(RecordsOf(c), width + 1, r)
                     = <<ChosenFor(chunks[c], r)[1]>> \o ChosenFor(chunks[c], r)[2]
           /\ \A c, d \in 1..Len(chunks) :
                 chunks[c] = chunks[d] => RecordsOf(c) = RecordsOf(d)

C9_Witness ==
    /\ pc = "filtered"
    /\ Len(chunks) = 3 /\ height = 2
    /\ chunks[1] = chunks[3] /\ chunks[1] # chunks[2]
    /\ filtered[1] # filtered[2 + width]

\* C10: _channelify raises when the number of whole channels in the block is
\* not 3 or 4; otherwise it returns that many chunks of width * height
\* samples, chunk c holding the c-th run of width * height input samples.
C10_Channelify ==
    (op = "_channelify" /\ pc # "call")
        => LET size == width * height
               count == Len(data_list) \div size
           IN  IF count \notin {3, 4} THEN pc = "raised"
               ELSE /\ pc # "raised"
                    /\ Len(chunks) = count
                    /\ \A c \in 1..count :
                          /\ Len(chunks[c]) = size
                          /\ chunks[c] = SubSeq(data_list, (c - 1) * size + 1,
                                                c * size)

C10_Witness ==
    /\ op = "_channelify" /\ pc = "channels"
    /\ Len(chunks) = 4
    /\ chunks[1] # chunks[4]

\* C11: whenever _channelify returns without error, the block length is
\* exactly 3 * W * H or 4 * W * H and the concatenation of the returned chunks
\* is the whole input, so that no sample is dropped.
C11_NoSampleDropped ==
    (op = "_channelify" /\ pc \in {"channels", "filtered", "reversed"}) =>
        /\ Len(data_list) \in {3 * width * height, 4 * width * height}
        /\ flatten(chunks) = data_list

\* C12: encode_block of FilteredArithmetic and of FilteredZstd ends with a
\* failed assertion, with nothing filtered, no coder constructed and no
\* output bit, whenever the block is not exactly W * H long, and it goes on
\* to its output exactly when the block is W * H long.
C12_BlockSizeAsserted ==
    (op = "encode_block" /\ pc # "call") =>
        IF Len(data_list) # width * height
        THEN /\ pc = "raised" /\ error = "AssertionError"
             /\ filter_types = <<>> /\ filtered = <<>>
             /\ coders = <<>> /\ encoded = <<>>
        ELSE pc = "done" /\ error = "" /\ encoded # <<>>

C12_Witness ==
    /\ op = "encode_block" /\ pc = "raised"
    /\ encoder = "FilteredArithmetic"
    /\ Len(data_list) < width * height

\* C13: with prepend_filter_type, the output for a channel is the encoding
\* of the H filter types followed by the encoding of the W * H residuals of
\* the same filtering pass, each by a coder of its own: two coders are
\* constructed, and each encoding is what a new coder gives on its stream
\* alone (a coder whose alphabet lacks a symbol of its stream gives nothing).
C13_TypesThenResiduals ==
    (op = "encode_block" /\ pc = "done" /\ prepend_filter_type) =>
        /\ <<filter_types, filtered>> = _filter_channel(data_list)
        /\ Len(filter_types) = height /\ Len(filtered) = width * height
        /\ Len(coders) = 2
        /\ encoded =
             IF encoder = "FilteredArithmetic"
             THEN IF get_alphabet(filter_types) \subseteq get_alphabet(coders[1].alphabet)
                     /\ get_alphabet(filtered) \subseteq get_alphabet(coders[2].alphabet)
                  THEN ArithmeticEncoder_encode_block(coders[1].alphabet,
                                                      coders[1].k, filter_types)
                       \o ArithmeticEncoder_encode_block(coders[2].alphabet,
                                                         coders[2].k, filtered)
                  ELSE <<>>
             ELSE ZstdExternalEncoder_encode_block(filter_types)
                  \o ZstdExternalEncoder_encode_block(filtered)

C13_Witness ==
    /\ op = "encode_block" /\ pc = "done" /\ prepend_filter_type
    /\ encoder = "FilteredArithmetic"
    /\ height = 2 /\ width = 2
    /\ filter_types = <<0, 1>>
    /\ Len(coders) = 2 /\ encoded # <<>>

\* C14: with prepend_filter_type, FilteredArithmetic encodes the filter types
\* with an order-1 adaptive model over the fixed alphabet {0, 1, 2, 3, 4},
\* whatever its order K and whichever filter types occur.
C14_FilterTypeCoder ==
    (op = "encode_block" /\ pc = "done" /\ prepend_filter_type
        /\ encoder = "FilteredArithmetic") =>
        coders[1] = ArithmeticEncoder(<<0, 1, 2, 3, 4>>, 1)

\* The concatenation of the encode_block outputs of the first n bands.
RECURSIVE ChannelsOf(_, _)
ChannelsOf(bands, n) ==
    IF n = 0 THEN <<>>
    ELSE ChannelsOf(bands, n - 1) \o encode_block(bands[n]).encoded

\* The bands encode_image encodes: the image's own for RGB and RGBA, the
\* three of its RGB conversion for every other mode.
BandsOf(img) ==
    IF img.mode \in {"RGB", "RGBA"} THEN img.bands ELSE convert_RGB(img).bands

\* C15: encode_image outputs a 32-bit len_w, the width on len_w bits, a
\* 32-bit len_h, the height on len_h bits, then encode_block of each channel
\* in band order, 4 channels for RGBA and 3 for every other mode; reading
\* the header by this layout gives back W, H and the position
\* 64 + len_w + len_h of the first channel.
C15_ImageLayout ==
    (op = "encode_image" /\ pc = "done") =>
        LET len_w == bitarray_to_uint(slice(encoded, 0, 32))
            w == bitarray_to_uint(slice(encoded, 32, 32 + len_w))
            len_h == bitarray_to_uint(slice(encoded, 32 + len_w, 64 + len_w))
            h == bitarray_to_uint(slice(encoded, 64 + len_w, 64 + len_w + len_h))
            C == IF image.mode = "RGBA" THEN 4 ELSE 3
        IN  /\ len_w = get_bit_width(width) /\ w = width
            /\ len_h = get_bit_width(height) /\ h = height
            /\ Len(BandsOf(image)) = C
            /\ slice(encoded, 64 + len_w + len_h, Len(encoded))
                   = ChannelsOf(BandsOf(image), C)

C15_Witness ==
    /\ op = "encode_image" /\ pc = "done"
    /\ image.mode = "L" /\ width = 3 /\ height = 1
    /\ Len(encoded) > 64 + 2 + 1

\* The call is LzArithmeticEncoder.encode_block and it returned.
LzEncoded == op = "LzArithmetic" /\ pc # "call" /\ sequence_encoding # <<>>

\* decode_block ran on the encoded block.
LzDecoded == LzEncoded /\ pc # "encoded"

\* The fields of a sequence segment read by its layout.
AlphabetSize(seg) == bitarray_to_uint(slice(seg, 0, 64))
AlphabetBits(seg) == slice(seg, 64, 64 + AlphabetSize(seg))
SequenceSize(seg) ==
    bitarray_to_uint(slice(seg, 64 + AlphabetSize(seg), 96 + AlphabetSize(seg)))
SequenceBits(seg) == slice(seg, 96 + AlphabetSize(seg), Len(seg))

C17_LiteralSegment ==
    (op = "_encode_literals_arithmetic" /\ pc # "call") =>
        LET size == bitarray_to_uint(slice(literals_encoding, 0, 32))
        IN  /\ IF literals = <<>>
               THEN literals_encoding = [i \in 1..32 |-> 0]
               ELSE /\ size > 0
                    /\ size = Len(literals_encoding) - 32
                    /\ slice(literals_encoding, 32, Len(literals_encoding))
                           = ArithmeticEncoder_encode_block(range_256, 1,
                                                            literals)
            /\ pc # "literals_encoded" =>
                   /\ pc = "done"
                   /\ num_bits_consumed_literals = 32 + size
                   /\ num_bits_consumed_literals = Len(literals_encoding)
                   /\ decoded_literals = literals

C17_Witness ==
    /\ op = "_encode_literals_arithmetic" /\ pc = "done"
    /\ literals = <<>>
    /\ num_bits_consumed_literals = 32

\* C18: the number of bits _decode_lz77_arithmetic_sequences reports as
\* consumed is 64 + A + 32 + S, with A and S the values of the two length
\* prefixes: the bit offset at which the literal segment begins.
C18_SequenceBitsConsumed ==
    LzDecoded =>
        /\ num_bits_consumed_sequences
               = 64 + AlphabetSize(encoded) + 32 + SequenceSize(sequence_encoding)
        /\ num_bits_consumed_sequences = Len(sequence_encoding)

\* C19: decode_block(encode_block(x)) completes without error and returns a
\* block equal to x, with a consumed-bit count equal to the length of the
\* encoded stream.
C19_LzRoundTrip ==
    (op = "LzArithmetic" /\ pc \notin {"call", "encoded"}) =>
        /\ pc = "done" /\ error = ""
        /\ decoded = data_list
        /\ num_bits_consumed_sequences + num_bits_consumed_literals
               = Len(encoded)

\* C20: the flattened stream of N sequences has length 1 + 3 * N, the
\* regrouping of a stream of that length gives the N triples back in their
\* order, and so does the decoder on the encoded block.
C20_Regrouping ==
    op = "LzArithmetic" =>
        /\ Len(combined(sequences)) = 1 + 3 * Len(sequences)
        /\ lz77_sequences(combined(sequences), Len(sequences), 1) = sequences
        /\ LzDecoded => decoded_sequences = sequences

C20_Witness ==
    /\ LzDecoded
    /\ Len(sequences) = 2
    /\ sequences[1] # sequences[2]
    /\ decoded_sequences = sequences

\* C28: against an all-zero previous row the Up residual is the None
\* residual and the Paeth residual is the Sub residual, so choose_filter
\* returns neither Up (2) nor Paeth (4) there, and the filter type
\* _filter_channel gives row 0 is 0, 1 or 3.
C28_TopRowTypes ==
    /\ (op \in ScanlineOps /\ pc = "done" /\ prev = np_zeros(Len(curr))) =>
           /\ op = "up" => ret_line = none(curr)[1]
           /\ op = "paeth" => ret_line = sub(curr)[1]
           /\ op = "choose_filter" => ret_type \in {0, 1, 3}
    /\ Done("_filter_channel") => filter_types[1] \in {0, 1, 3}

C28_Witness ==
    /\ Done("_filter_channel")
    /\ width = 2 /\ height = 2
    /\ filter_types = <<3, 2>>

\* C24: FilteredZlib._filter_channels filters row 0 of each channel against
\* an all-zero previous row and every later row against the original row
\* before it, so that its flat output is that of CoreEncoder._filter_channels
\* on the same channels.
C24_ZlibTopEdge ==
    (op = "FilteredZlib.encode_block" /\ pc = "done") =>
        filtered = _filter_channels(chunks)

\* C27: every value of the flattened sequence stream, and so every symbol of
\* the alphabet handed to the Elias-delta coder, is a non-negative integer,
\* for every parse, the one ending with the end-of-stream sequence
\* (match_length = 0) included.
C27_FlattenedNonNegative ==
    (op = "LzArithmetic" /\ pc # "call") =>
        /\ \A i \in DOMAIN combined(sequences) : combined(sequences)[i] >= 0
        /\ \A x \in get_alphabet(combined(sequences)) : x >= 0
        /\ error # "AssertionError"

\* C25: for every parse LzArithmeticEncoder.encode_block encodes,
\* FilteredLzArithmetic._lz_with_arithmetic gives the same fields: the 64-bit
\* alphabet length and the alphabet bits, the 32-bit sequence length and as
\* many sequence bits, then the 32-bit literal length and the literals coded
\* over the fixed alphabet 0..255.
C25_CompositeFraming ==
    (op = "_lz_with_arithmetic" /\ pc = "done") =>
        \A r \in {LzArithmeticEncoder_encode_block(sequences, literals)} :
            r.error = "" =>
                /\ slice(sequence_encoding, 0, 64 + AlphabetSize(r.sequence_encoding))
                       = slice(r.sequence_encoding, 0,
                               64 + AlphabetSize(r.sequence_encoding))
                /\ Len(sequence_encoding) = Len(r.sequence_encoding)
                /\ SequenceSize(sequence_encoding)
                       = Len(SequenceBits(sequence_encoding))
                /\ literals_encoding = r.literals_encoding
                /\ encoded = sequence_encoding \o literals_encoding

\* C26: whichever of FilteredArithmetic, FilteredZstd and
\* FilteredLzArithmetic the encoder is, encode_image on an RGB or RGBA image
\* of W by H pixels returns the header followed by the encoding of each
\* channel: every block of W * H samples it hands to encode_block is
\* accepted.
C26_BackEndsPlugIn ==
    (op = "encode_image" /\ pc # "call" /\ image.mode \in {"RGB", "RGBA"}
        /\ \A c \in DOMAIN image.bands : Len(image.bands[c]) = width * height)
    => /\ pc = "done" /\ error = ""
       /\ encoded = image_header \o ChannelsOf(image.bands, Len(image.bands))

\* The driver and the order the documented command line gives a name.
DocumentedClass(name) ==
    CASE name = "filtered_zlib" -> "FilteredZlib"
      [] name = "filtered_zstd" -> "FilteredZstd"
      [] name = "filtered_lz_arithmetic" -> "FilteredLzArithmetic"
      [] OTHER -> "FilteredArithmetic"

DocumentedOrder(name) ==
    CASE name = "arithmetic1" -> 1
      [] name = "arithmetic2" -> 2
      [] name = "arithmetic3" -> 3
      [] name = "arithmetic4" -> 4
      [] OTHER -> 0

\* C21: get_encoder returns a driver for every compressor name of the
\* documented command line, arithmeticK being the arithmetic driver of order
\* K, and raises the unrecognized-compressor error for the names of no
\* compressor.
C21_GetEncoder ==
    (op = "compare_file" /\ pc \notin {"call", "heuristic"}) =>
        /\ encoder_name \in DocumentedNames =>
               /\ encoder = DocumentedClass(encoder_name)
               /\ order = DocumentedOrder(encoder_name)
               /\ prepend_filter_type = separate
        /\ encoder_name \in UnknownNames =>
               /\ pc = "raised" /\ error = "ValueError"
               /\ encoder = "" /\ encoded = <<>>

\* C22: get_heuristic returns a heuristic for the names sum and diffsum
\* only; for every other name the call fails without returning a value, so
\* that no encoder is configured and nothing is encoded.
C22_UnknownHeuristic ==
    (op = "compare_file" /\ pc # "call") =>
        IF lower(heuristic) \in {"sum", "diffsum"}
        THEN chosen_heuristic \in {"ABSOLUTE_MINIMUM_SUM",
                                   "MINIMUM_DIFFERENCE_SUM"}
        ELSE /\ pc = "raised"
             /\ chosen_heuristic = ""
             /\ encoder = "" /\ self_heuristic = "" /\ encoded = <<>>

\* A residual byte read as a signed delta in -128..127, and its magnitude.
SignedDelta(b) == IF b > 127 THEN b - 256 ELSE b
Magnitude(d) == IF d < 0 THEN 0 - d ELSE d

\* The sum of the magnitudes of the signed deltas of filter f on (c, p).
SignedScore(f, c, p) ==
    np_sum([i \in 1..Len(c) |-> Magnitude(SignedDelta(Residual(f, c, p)[i]))])

\* The lowest filter code among those of the smallest signed score.
SignedChoice(c, p) ==
    CHOOSE f \in 0..4 :
        /\ \A g \in 0..4 : SignedScore(f, c, p) <= SignedScore(g, c, p)
        /\ \A g \in 0..(f - 1) : SignedScore(g, c, p) > SignedScore(f, c, p)

\* C23: an encoder configured with the minimum signed-difference heuristic
\* gives every scanline of a channel the filter type of the smallest sum of
\* magnitudes of its residual read as signed deltas, the lowest code among
\* equals.
C23_SignedDifference ==
    (Done("_filter_channel") /\ self_heuristic = "MINIMUM_DIFFERENCE_SUM") =>
        \A r \in 1..height :
            filter_types[r]
                = SignedChoice(RowOf(channel, width, r),
                               IF r = 1 THEN np_zeros(width)
                               ELSE RowOf(channel, width, r - 1))

====
